---- MODULE Spec2Model ----
(***************************************************************************)
(* ReviewGPT: the retrieval-augmented chat pipeline.                       *)
(*                                                                         *)
(*   - vector search over the reviews table (lib/vector/search.ts)         *)
(*   - context assembly and prompt building (lib/ai/rag.ts)                *)
(*   - the chat turn and its server-sent event stream                      *)
(*     (lib/ai/chat.ts, app/api/chat/route.ts)                             *)
(*   - the embedding service and its clients (lib/ai/embeddings.ts)        *)
(*   - the cached configuration (lib/firebase/remote-config.ts)            *)
(*   - the chat page reading the event stream (ChatInterface)              *)
(*                                                                         *)
(* Six specifications: Spec is one chat turn; SpecSearch calls the search  *)
(* and RAG library once on every table; SpecEmbed calls the embedding      *)
(* service repeatedly in one process; SpecConfig reads the configuration   *)
(* while the clock advances; SpecClient is the chat page handling the      *)
(* response of a turn; SpecTurns is two turns of one process interleaved   *)
(* at their awaits.                                                        *)
(*                                                                         *)
(* Numbers that are floats in the program (cosine distance, similarity,    *)
(* thresholds) are kept in hundredths: 0.92 is 92.  An optional value      *)
(* (a JavaScript value that may be undefined or null) is a set with at     *)
(* most one element: None is undefined, Some(v) is v.                      *)
(***************************************************************************)
EXTENDS Integers, Sequences, FiniteSets, TLC

VARIABLES
    store,        \* the reviews table: a sequence of rows, row i has id i
    call,         \* the last library call and its arguments
    result,       \* what that call returned (or the error thrown)
    world,        \* the process's surroundings: API keys, Firebase, the clock
    embeddingService, \* lib/ai/embeddings.ts: the service singleton's clients
    remoteConfig, \* lib/firebase/remote-config.ts: configCache, cacheTimestamp
    pc,           \* chat turn: position of the POST handler
    req,          \* chat turn: the request body
    config,       \* chat turn: values getRemoteConfig returned to this turn
    queryEmbedding, \* chat turn: the embedding of the message (optional)
    ragResult,    \* chat turn: what executeRAGPipeline returned (optional)
    messages,     \* chat turn: the message list handed to streamText
    usedModel,    \* chat turn: the model getAIModel resolved (optional)
    calls,        \* chat turn: number of embedding / store / generation calls
    genState,     \* generation provider: "idle", "streaming", "finished", "failed"
    yielded,      \* generation provider: every chunk it produced, in order
    textStream,   \* chunks produced and not yet read by the route's for-await
    http,         \* the HTTP response of the turn: "none", "400", "500", "stream"
    streamState,  \* the ReadableStream: "none", "readable", "closed", "cancelled"
    envelopes,    \* envelopes enqueued on the stream, in order
    aborted,      \* optional: what had happened when the caller cancelled
    failure,      \* chat turn: the stage whose error ended the turn, or "none"
    chatInterface, \* the chat page (ChatInterface): its messages, toasts, reader
    turns         \* concurrently active chat turns of one process, by turn id

vars == <<world, embeddingService, remoteConfig, store, call, result, pc,
          req, config, queryEmbedding, ragResult, messages, usedModel, calls, genState, yielded, textStream, http,
          streamState, envelopes, aborted, failure, chatInterface, turns>>

serviceVars == <<world, embeddingService, remoteConfig>>

turnVars == <<pc, req, config, queryEmbedding, ragResult, messages, usedModel,
              calls, genState, yielded, textStream, http, streamState,
              envelopes, aborted, failure>>

otherVars == <<chatInterface, turns>>

-----------------------------------------------------------------------------
(* Bounds of the model *)

MaxRows == 3          \* rows in a generated reviews table
MaxLimit == 3         \* largest `limit` a caller passes
MaxContextLength == 7 \* largest `maxContextLength` a caller passes
MaxChunks == 2        \* chunks a generation stream yields at most
MaxHistory == 2       \* messages of caller-supplied conversation history

-----------------------------------------------------------------------------
(* Optional values and JavaScript truthiness *)

None == {}
Some(v) == {v}
Get(o) == CHOOSE v \in o : TRUE

\* `const { x = d } = options`: the default applies to undefined only
Default(o, d) == IF o = None THEN d ELSE Get(o)

\* `if (appId)`: undefined and 0 are falsy
TruthyNumber(o) == o # None /\ Get(o) # 0

\* `if (platform)`: undefined and "" are falsy
TruthyString(o) == o # None /\ Get(o) # ""

RECURSIVE SumSeq(_)
SumSeq(s) == IF s = <<>> THEN 0 ELSE Head(s) + SumSeq(Tail(s))

Min(a, b) == IF a <= b THEN a ELSE b

Abs(n) == IF n < 0 THEN 0 - n ELSE n

Take(s, n) == SubSeq(s, 1, Min(n, Len(s)))

IsPrefix(s, t) == Len(s) <= Len(t) /\ SubSeq(t, 1, Len(s)) = s

-----------------------------------------------------------------------------
(* Embeddings and the reviews table *)

\* 1.00 in hundredths: the `1` of `1 - (embedding <=> $1::vector)`
Scale == 100

GoogleDimensions == 768
OpenAIDimensions == 1536

\* the column is declared `embedding vector(768)`
ColumnDimensions == 768

Providers == {"google", "openai"}

Dimensions(provider) ==
    IF provider = "google" THEN GoogleDimensions ELSE OpenAIDimensions

Platforms == {"ios", "android"}
AppIds == {1, 2}

\* An embedding is a vector of `dim` floats.  All the program does with the
\* floats is hand them to pgvector's cosine-distance operator, so a vector is
\* kept as its dimension and a coordinate `pos` such that the cosine distance
\* of two vectors is the absolute difference of their coordinates (0 .. 2.00).
Positions == {30, 130}

CosineDistance(a, b) == Abs(a.pos - b.pos)

\* the query texts and where their embeddings lie
Queries == {"app crashes when opening"}
QueryPos(query) ==
    CASE query = "a" -> 10
      [] query = "b" -> 20
      [] query = "c" -> 40
      [] OTHER -> 0

\* the embedding model each client asks for, and the length of the vectors
\* the provider's API returns for it
EmbeddingModel(provider) ==
    IF provider = "google" THEN "text-embedding-004" ELSE "text-embedding-3-small"

ApiDimensions(model) == IF model = "text-embedding-004" THEN 768 ELSE 1536

\* the vector the provider's API returns for a text
Embed(text, provider) ==
    [dim |-> ApiDimensions(EmbeddingModel(provider)), pos |-> QueryPos(text)]

StoredEmbedding(p) == [dim |-> ColumnDimensions, pos |-> p]

Row(app, plat, emb, rating, tl, cl, version) ==
    [appId |-> app, platform |-> plat, embedding |-> emb, rating |-> rating,
     titleLen |-> tl, contentLen |-> cl, appVersion |-> version]

\* rows that differ in what the WHERE clause looks at
FilterRows ==
    { Row(a, p, e, 5, 1, 1, None) :
        a \in AppIds, p \in Platforms,
        e \in {None, Some(StoredEmbedding(30))} }

\* rows that differ in what the context budget looks at
BudgetRows ==
    { Row(1, "ios", Some(StoredEmbedding(x)), 5, 1, c, None) :
        x \in Positions, c \in {1, 5} }

SeqsUpTo(S, n) == UNION { [1..k -> S] : k \in 0..n }

\* Scenario A: similarities 0.92, 0.81, 0.55, 0.40, 0.10
ScenarioAStore ==
    << Row(1, "ios", Some(StoredEmbedding(45)), 1, 1, 1, Some("2.1.0")),
       Row(1, "ios", Some(StoredEmbedding(8)), 2, 1, 1, Some("10")),
       Row(2, "android", Some(StoredEmbedding(90)), 3, 1, 1, Some("2")),
       Row(1, "android", Some(StoredEmbedding(19)), 4, 1, 1, Some("2.1.0")),
       Row(2, "ios", Some(StoredEmbedding(60)), 5, 1, 1, None) >>

Stores ==
    SeqsUpTo(FilterRows, MaxRows - 1) \cup SeqsUpTo(BudgetRows, MaxRows)
        \cup {ScenarioAStore}

\* the table as a set of rows with their serial ids
Table(s) == { [id |-> i, row |-> s[i]] : i \in DOMAIN s }

-----------------------------------------------------------------------------
(* lib/ai/embeddings.ts: the EmbeddingService singleton *)

\* `googleClient = null`, `openaiClient = null`
NoClients == [googleClient |-> None, openaiClient |-> None]

-----------------------------------------------------------------------------
(* lib/vector/search.ts *)

DefaultSearchLimit == 10
DefaultSearchThreshold == 50
DefaultMaxContextLength == 5000

\* `1 - (embedding <=> $1::vector) as similarity`
Similarity(r, q) == Scale - CosineDistance(Get(r.row.embedding), q)

\* the conditions array joined with AND: "embedding IS NOT NULL", then one
\* equality per filter the `if (appId)` / `if (platform)` tests let through
WhereClause(r, appId, platform) ==
    /\ r.row.embedding # None
    /\ (TruthyNumber(appId) => r.row.appId = Get(appId))
    /\ (TruthyString(platform) => r.row.platform = Get(platform))

\* `AND 1 - (embedding <=> $1::vector) > $2`
AboveThresholdInclusive(r, q, threshold) == Similarity(r, q) >= threshold

AboveThreshold(r, q, threshold) == Similarity(r, q) > threshold

\* `ORDER BY embedding <=> $1::vector`: every order of the rows that is
\* ascending in distance; rows at equal distance come in any order
RECURSIVE OrderByDistance(_, _)
OrderByDistance(rows, q) ==
    IF rows = {} THEN {<<>>}
    ELSE LET near == { r \in rows : \A o \in rows :
                        CosineDistance(Get(r.row.embedding), q)
                            <= CosineDistance(Get(o.row.embedding), q) }
         IN UNION { { <<r>> \o s : s \in OrderByDistance(rows \ {r}, q) }
                    : r \in near }

\* one result row: the review's columns and its similarity
ResultRow(r, q) ==
    [id |-> r.id, appId |-> r.row.appId, platform |-> r.row.platform,
     rating |-> r.row.rating, titleLen |-> r.row.titleLen,
     contentLen |-> r.row.contentLen, appVersion |-> r.row.appVersion,
     similarity |-> Similarity(r, q)]

\* `LIMIT $3`
LimitRows(s, limit) == Take(s, limit)

\* pgvector refuses to compare vectors of different dimensions
DimensionMismatch(table, q) ==
    \E r \in table : r.row.embedding # None /\ Get(r.row.embedding).dim # q.dim

\* the rows pool.query(query_sql, params) can return: a set of sequences
\* (one per order the store may choose among equal distances)
QueryRows(table, q, appId, platform, threshold, limit) ==
    LET matching == { r \in table : /\ WhereClause(r, appId, platform)
                                    /\ AboveThreshold(r, q, threshold) }
    IN { LimitRows([i \in DOMAIN s |-> ResultRow(s[i], q)], limit)
         : s \in OrderByDistance(matching, q) }

\* avgSimilarity: a quotient, kept exact as numerator and denominator;
\* the empty list has average 0
AvgSimilarityTruncated(reviews) ==
    IF Len(reviews) > 0
    THEN [num |-> SumSeq([i \in DOMAIN reviews |-> reviews[i].similarity])
                      \div Len(reviews),
          den |-> 1]
    ELSE [num |-> 0, den |-> 1]

AvgSimilarity(reviews) ==
    IF Len(reviews) > 0
    THEN [num |-> SumSeq([i \in DOMAIN reviews |-> reviews[i].similarity]),
          den |-> Len(reviews)]
    ELSE [num |-> 0, den |-> 1]

\* what searchSimilarReviews returns for the rows the store returned
SearchResult(query, rows) ==
    [reviews |-> rows, query |-> query, totalFound |-> Len(rows),
     avgSimilarity |-> AvgSimilarity(rows)]

\* options of a search: every field optional
SearchOptions(appId, platform, limit, threshold, provider) ==
    [appId |-> appId, platform |-> platform, limit |-> limit,
     similarityThreshold |-> threshold, embeddingProvider |-> provider]

\* searchSimilarReviews once the embedding is there: the results the store
\* query can produce
SearchSimilarReviews(table, query, q, options) ==
    { SearchResult(query, rows) :
        rows \in QueryRows(table, q, options.appId, options.platform,
                           Default(options.similarityThreshold, DefaultSearchThreshold),
                           Default(options.limit, DefaultSearchLimit)) }

DefaultSimilarToLimit == 10
DefaultSimilarToThreshold == 70

\* `SELECT title, content, embedding FROM reviews WHERE id = $1`
SelectReview(table, reviewId) == { r \in table : r.id = reviewId }

\* the second query of findSimilarToReview: `WHERE id != $2 AND embedding IS
\* NOT NULL AND 1 - (embedding <=> $1::vector) > $3 ORDER BY ... LIMIT $4`
SimilarRowsWithSelf(table, reviewId, q, threshold, limit) ==
    LET matching == { r \in table : /\ r.row.embedding # None
                                    /\ AboveThreshold(r, q, threshold) }
    IN { LimitRows([i \in DOMAIN s |-> ResultRow(s[i], q)], limit)
         : s \in OrderByDistance(matching, q) }

SimilarRows(table, reviewId, q, threshold, limit) ==
    LET matching == { r \in table : /\ r.id # reviewId
                                    /\ r.row.embedding # None
                                    /\ AboveThreshold(r, q, threshold) }
    IN { LimitRows([i \in DOMAIN s |-> ResultRow(s[i], q)], limit)
         : s \in OrderByDistance(matching, q) }

\* findSimilarToReview: what it can return or throw, with the vector it
\* searched with and the queries it sent to the store
FindSimilarToReviewNoChecks(table, reviewId, options) ==
    LET rows == SelectReview(table, reviewId)
        review == CHOOSE r \in rows : TRUE
        q == Get(review.row.embedding)
    IN IF rows = {} \/ review.row.embedding = None
       THEN { [status |-> "ok", q |-> None,
               queries |-> <<"review", "similar">>,
               value |-> SearchResult([review |-> reviewId], <<>>)] }
       ELSE { [status |-> "ok", q |-> Some(q),
               queries |-> <<"review", "similar">>,
               value |-> SearchResult([review |-> reviewId], similar)] :
              similar \in SimilarRows(table, reviewId, q,
                              Default(options.similarityThreshold,
                                      DefaultSimilarToThreshold),
                              Default(options.limit, DefaultSimilarToLimit)) }

FindSimilarToReview(table, reviewId, options) ==
    LET rows == SelectReview(table, reviewId)
        review == CHOOSE r \in rows : TRUE
        q == Get(review.row.embedding)
    IN IF rows = {}
       THEN { [status |-> "error", error |-> "not found", q |-> None,
               queries |-> <<"review">>] }
       ELSE IF review.row.embedding = None
       THEN { [status |-> "error", error |-> "does not have an embedding",
               q |-> None, queries |-> <<"review">>] }
       ELSE { [status |-> "ok", q |-> Some(q),
               queries |-> <<"review", "similar">>,
               value |-> SearchResult([review |-> reviewId], similar)] :
              similar \in SimilarRows(table, reviewId, q,
                              Default(options.similarityThreshold,
                                      DefaultSimilarToThreshold),
                              Default(options.limit, DefaultSimilarToLimit)) }

\* the for loop of retrieveContextReviews over result.reviews
RECURSIVE ContextLoopNoLengthCheck(_, _, _, _, _)
ContextLoopNoLengthCheck(reviews, acc, totalLength, limit, maxContextLength) ==
    IF reviews = <<>> THEN acc
    ELSE LET review == Head(reviews)
             reviewLength == review.titleLen + review.contentLen
         IN IF Len(acc) + 1 >= limit THEN Append(acc, review)
            ELSE ContextLoopNoLengthCheck(Tail(reviews), Append(acc, review),
                             totalLength + reviewLength, limit, maxContextLength)

RECURSIVE ContextLoop(_, _, _, _, _)
ContextLoop(reviews, acc, totalLength, limit, maxContextLength) ==
    IF reviews = <<>> THEN acc
    ELSE LET review == Head(reviews)
             reviewLength == review.titleLen + review.contentLen
         IN IF totalLength + reviewLength > maxContextLength THEN acc
            ELSE IF Len(acc) + 1 >= limit THEN Append(acc, review)
            ELSE ContextLoop(Tail(reviews), Append(acc, review),
                             totalLength + reviewLength, limit, maxContextLength)

\* the options retrieveContextReviews hands to searchSimilarReviews:
\* `{ ...options, limit: limit * 2 }`
ContextSearchOptions(options) ==
    [options EXCEPT !.limit = Some(2 * Default(options.limit, DefaultSearchLimit))]

\* retrieveContextReviews once the embedding is there
RetrieveContextReviews(table, query, q, options, maxContextLength) ==
    { ContextLoop(res.reviews, <<>>, 0,
                  Default(options.limit, DefaultSearchLimit),
                  Default(maxContextLength, DefaultMaxContextLength))
      : res \in SearchSimilarReviews(table, query, q, ContextSearchOptions(options)) }

-----------------------------------------------------------------------------
(* lib/firebase/remote-config.ts, as far as a chat turn sees it *)

DefaultModel == "gemini-1.5-pro"

\* model identifiers, letter by letter: the four the configuration's type
\* names, and three a template value or a caller can hold beside them
Spelling ==
    "gemini-1.5-pro" :> <<"g", "e", "m", "i", "n", "i", "-", "1", ".", "5", "-", "p", "r", "o">>
        @@ "gemini-1.5-flash" :> <<"g", "e", "m", "i", "n", "i", "-", "1", ".", "5", "-", "f", "l", "a", "s", "h">>
        @@ "gpt-4o" :> <<"g", "p", "t", "-", "4", "o">>
        @@ "gpt-4o-mini" :> <<"g", "p", "t", "-", "4", "o", "-", "m", "i", "n", "i">>
        @@ "claude-3" :> <<"c", "l", "a", "u", "d", "e", "-", "3">>
        @@ "Gemini-Pro" :> <<"G", "e", "m", "i", "n", "i", "-", "P", "r", "o">>
        @@ "gp" :> <<"g", "p">>
        @@ "" :> <<>>

ModelIds == DOMAIN Spelling

\* s.startsWith(prefix)
StartsWith(s, prefix) == IsPrefix(prefix, Spelling[s])

\* model.startsWith("gemini") and model.startsWith("gpt")
StartsWithGemini(model) == StartsWith(model, <<"g", "e", "m", "i", "n", "i">>)
StartsWithGpt(model) == StartsWith(model, <<"g", "p", "t">>)

DefaultInstructions == "You are ReviewGPT"
DefaultMaxContextReviews == 10

DefaultSyncIntervalHours == 24
DefaultMaxReviewsPerSync == 100

ConfigValue(model, provider, maxReviews) ==
    [agent_system_instructions |-> DefaultInstructions,
     preferred_model |-> model,
     embedding_provider |-> provider,
     max_context_reviews |-> maxReviews,
     sync_interval_hours |-> DefaultSyncIntervalHours,
     max_reviews_per_sync |-> DefaultMaxReviewsPerSync]

\* the values one call of getRemoteConfig can return: the defaults, or what
\* the service's template holds
ConfigValues ==
    { ConfigValue(DefaultModel, "google", DefaultMaxContextReviews),
      ConfigValue("gpt-4o", "openai", 1),
      ConfigValue("claude-3", "google", DefaultMaxContextReviews) }

\* DEFAULT_CONFIG: every value a string, as in a Remote Config template
DEFAULT_CONFIG ==
    [agent_system_instructions |-> DefaultInstructions,
     preferred_model |-> "gemini-1.5-pro",
     embedding_provider |-> "google",
     max_context_reviews |-> "10",
     sync_interval_hours |-> "24",
     max_reviews_per_sync |-> "100"]

ConfigKeys == DOMAIN DEFAULT_CONFIG

\* the cache's time to live, in minutes (10 * 60 * 1000 ms)
CACHE_TTL_MS == 10

\* parseInt of the decimal strings the templates and the defaults hold
ParseInt(string) ==
    CASE string = "1" -> 1
      [] string = "10" -> 10
      [] string = "24" -> 24
      [] string = "100" -> 100

\* the parameters of the service's template that have a default value: the
\* `values` getRemoteConfig collects.  None, a full set, and one with an
\* empty string and a model of no known family
EmptyTemplate == [k \in {} |-> ""]
GptTemplate ==
    "preferred_model" :> "gpt-4o" @@ "embedding_provider" :> "openai"
        @@ "max_context_reviews" :> "1"
ClaudeTemplate ==
    "preferred_model" :> "claude-3" @@ "agent_system_instructions" :> ""

Templates == {EmptyTemplate, GptTemplate, ClaudeTemplate}

\* `{ ...DEFAULT_CONFIG, ...values }`
Merged(values) ==
    [k \in ConfigKeys |-> IF k \in DOMAIN values THEN values[k] ELSE DEFAULT_CONFIG[k]]

\* `raw.key || DEFAULT_CONFIG.key`
OrDefault(raw, key) ==
    IF key \in DOMAIN raw /\ raw[key] # "" THEN raw[key] ELSE DEFAULT_CONFIG[key]

\* parseConfigValues
ParseConfigValues(raw) ==
    [agent_system_instructions |-> OrDefault(raw, "agent_system_instructions"),
     preferred_model |-> OrDefault(raw, "preferred_model"),
     embedding_provider |-> OrDefault(raw, "embedding_provider"),
     max_context_reviews |-> ParseInt(OrDefault(raw, "max_context_reviews")),
     sync_interval_hours |-> ParseInt(OrDefault(raw, "sync_interval_hours")),
     max_reviews_per_sync |-> ParseInt(OrDefault(raw, "max_reviews_per_sync"))]

\* the module's state when it is loaded: `configCache = null`,
\* `cacheTimestamp = 0`
NoConfigCache == [configCache |-> None, cacheTimestamp |-> 0]

\* the cache test with `<=`: a cache of exactly 10 minutes is still served
CacheValidInclusive(rc, now) ==
    rc.configCache # None /\ now - rc.cacheTimestamp <= CACHE_TTL_MS

\* the cache test of getRemoteConfig
CacheValid(rc, now) ==
    rc.configCache # None /\ now - rc.cacheTimestamp < CACHE_TTL_MS

\* getRemoteConfig, given whether the getTemplate request succeeds: the value
\* it returns, whether it threw, whether it sent the getTemplate request, and
\* the module's state after it
GetRemoteConfigThrowing(rc, w, fetchSucceeds) ==
    IF CacheValid(rc, w.now)
    THEN [value |-> Get(rc.configCache), threw |-> FALSE, fetched |-> FALSE,
          state |-> rc]
    ELSE IF ~w.firebase
    THEN [value |-> ParseConfigValues(DEFAULT_CONFIG), threw |-> FALSE,
          fetched |-> FALSE, state |-> rc]
    ELSE IF fetchSucceeds
    THEN LET parsed == ParseConfigValues(Merged(w.template))
         IN [value |-> parsed, threw |-> FALSE, fetched |-> TRUE,
             state |-> [configCache |-> Some(parsed), cacheTimestamp |-> w.now]]
    ELSE [value |-> ParseConfigValues(DEFAULT_CONFIG), threw |-> TRUE,
          fetched |-> TRUE, state |-> rc]

GetRemoteConfig(rc, w, fetchSucceeds) ==
    IF CacheValid(rc, w.now)
    THEN [value |-> Get(rc.configCache), threw |-> FALSE, fetched |-> FALSE,
          state |-> rc]
    ELSE IF ~w.firebase
    THEN [value |-> ParseConfigValues(DEFAULT_CONFIG), threw |-> FALSE,
          fetched |-> FALSE, state |-> rc]
    ELSE IF fetchSucceeds
    THEN LET parsed == ParseConfigValues(Merged(w.template))
         IN [value |-> parsed, threw |-> FALSE, fetched |-> TRUE,
             state |-> [configCache |-> Some(parsed), cacheTimestamp |-> w.now]]
    ELSE [value |-> ParseConfigValues(DEFAULT_CONFIG), threw |-> FALSE,
          fetched |-> TRUE, state |-> rc]

\* the surroundings of the process: which API keys its environment holds,
\* whether the Firebase app was initialised when the module was loaded, the
\* clock in minutes, and the template the Remote Config service holds
World(googleKey, openaiKey, firebase, template) ==
    [GOOGLE_AI_API_KEY |-> googleKey, OPENAI_API_KEY |-> openaiKey,
     firebase |-> firebase, now |-> 0, template |-> template]

-----------------------------------------------------------------------------
(* lib/ai/embeddings.ts: EmbeddingService *)

MissingKey(provider) ==
    IF provider = "google" THEN "GOOGLE_AI_API_KEY environment variable is not set"
    ELSE "OPENAI_API_KEY environment variable is not set"

\* `new GoogleEmbeddingClient(apiKey)` / `new OpenAIEmbeddingClient(apiKey)`:
\* a client object of its own identity, here the number of clients of the
\* provider the process has constructed so far
NewClient(old, provider) ==
    [provider |-> provider,
     instance |-> IF old = None THEN 1 ELSE Get(old).instance + 1]

\* getGoogleClient / getOpenAIClient: the client is constructed on first use,
\* after the API key was found in the environment
GetClientConstructFirst(service, w, provider) ==
    LET field == IF provider = "google" THEN "googleClient" ELSE "openaiClient"
        key == IF provider = "google" THEN w.GOOGLE_AI_API_KEY ELSE w.OPENAI_API_KEY
        made == [service EXCEPT ![field] = Some(NewClient(service[field], provider))]
    IN IF service[field] # None
       THEN [threw |-> FALSE, constructed |-> FALSE, service |-> service]
       ELSE IF ~key
       THEN [threw |-> TRUE, constructed |-> TRUE, service |-> made]
       ELSE [threw |-> FALSE, constructed |-> TRUE, service |-> made]

\* a getter without the `if (!this.googleClient)` test: every call
\* constructs a client
GetClientAlwaysNew(service, w, provider) ==
    LET field == IF provider = "google" THEN "googleClient" ELSE "openaiClient"
        key == IF provider = "google" THEN w.GOOGLE_AI_API_KEY ELSE w.OPENAI_API_KEY
    IN IF ~key
       THEN [threw |-> TRUE, constructed |-> FALSE, service |-> service]
       ELSE [threw |-> FALSE, constructed |-> TRUE,
             service |-> [service EXCEPT
                            ![field] = Some(NewClient(service[field], provider))]]

GetClient(service, w, provider) ==
    LET field == IF provider = "google" THEN "googleClient" ELSE "openaiClient"
        key == IF provider = "google" THEN w.GOOGLE_AI_API_KEY ELSE w.OPENAI_API_KEY
    IN IF service[field] # None
       THEN [threw |-> FALSE, constructed |-> FALSE, service |-> service]
       ELSE IF ~key
       THEN [threw |-> TRUE, constructed |-> FALSE, service |-> service]
       ELSE [threw |-> FALSE, constructed |-> TRUE,
             service |-> [service EXCEPT
                            ![field] = Some(NewClient(service[field], provider))]]

\* the requests a client sends to its provider's API: the Google client one
\* embedContent per text, the OpenAI client one embeddings.create for all
ApiRequests(provider, op, texts) ==
    IF op = "generateEmbedding" THEN << <<texts[1]>> >>
    ELSE IF provider = "google" THEN [i \in DOMAIN texts |-> <<texts[i]>>]
    ELSE <<texts>>

\* the answer of the provider's API to a request: one item per input, with
\* its index, in the order of the input
ApiResponse(provider, input) ==
    [i \in DOMAIN input |-> [index |-> i - 1, embedding |-> Embed(input[i], provider)]]

\* generateEmbeddingsBatch of a client: Promise.all over the texts, or
\* `response.data.map((item) => item.embedding)`
ClientBatchReversed(provider, texts) ==
    [i \in DOMAIN texts |->
        ApiResponse(provider, texts)[Len(texts) + 1 - i].embedding]

ClientBatch(provider, texts) ==
    IF provider = "google"
    THEN [i \in DOMAIN texts |-> ApiResponse(provider, <<texts[i]>>)[1].embedding]
    ELSE LET data == ApiResponse(provider, texts)
         IN [i \in DOMAIN data |-> data[i].embedding]

\* one EmbeddingResult
EmbeddingResult(embedding, provider) ==
    [embedding |-> embedding, dimensions |-> Dimensions(provider),
     provider |-> provider]

\* what generateEmbedding or generateEmbeddingsBatch returns once every
\* request was answered
EmbeddingValue(op, provider, texts) ==
    IF op = "generateEmbedding"
    THEN EmbeddingResult(ApiResponse(provider, <<texts[1]>>)[1].embedding, provider)
    ELSE LET embeddings == ClientBatch(provider, texts)
         IN [i \in DOMAIN embeddings |-> EmbeddingResult(embeddings[i], provider)]

-----------------------------------------------------------------------------
(* lib/ai/rag.ts *)

RagDefaultThreshold == 50
RagMaxContextLength == 8000

NoReviewsFound == "No reviews found matching your query."

\* (x * 100).toFixed(1) of a quotient in hundredths: tenths of a percent,
\* rounded half up
ToFixed1(avg) == (2 * 10 * avg.num + avg.den) \div (2 * avg.den)

\* formatReviewsForContext: the fixed sentence for no reviews, otherwise one
\* block per review, numbered from 1 (the blocks are joined by "\n---\n\n")
FormatReviewsForContextNoEmptyCase(reviews) ==
    [text |-> "",
     blocks |-> [i \in DOMAIN reviews |->
                    [index |-> i, rating |-> reviews[i].rating,
                     review |-> reviews[i].id,
                     appVersion |-> reviews[i].appVersion]]]

FormatReviewsForContext(reviews) ==
    IF Len(reviews) = 0
    THEN [text |-> NoReviewsFound, blocks |-> <<>>]
    ELSE [text |-> "",
          blocks |-> [i \in DOMAIN reviews |->
                         [index |-> i, rating |-> reviews[i].rating,
                          review |-> reviews[i].id,
                          appVersion |-> reviews[i].appVersion]]]

\* buildRAGPrompt
BuildRAGPrompt(context) ==
    [systemPrompt |-> [instructions |-> context.systemInstructions,
                       reviewCount |-> context.reviewCount,
                       relevance |-> ToFixed1(context.avgSimilarity)],
     userPrompt |-> [question |-> context.query,
                     reviewsContext |-> FormatReviewsForContext(context.reviews)]]

TopVersionsCount == 3

\* app versions, and for those that are canonical array indices ("2", "10")
\* their number: Object.entries lists such keys first, in ascending order
VersionIndex ==
    "2.1.0" :> None @@ "2.0.0" :> None @@ "2" :> Some(2) @@ "10" :> Some(10)

Versions == DOMAIN VersionIndex

\* versionCounts[v] after the loop, for a version the loop has counted
VersionCount(reviews, v) ==
    Cardinality({ i \in DOMAIN reviews : reviews[i].appVersion = Some(v) })

\* the position of the review that made the loop create the key v
FirstSeen(reviews, v) ==
    CHOOSE i \in DOMAIN reviews :
        /\ reviews[i].appVersion = Some(v)
        /\ \A j \in 1..(i - 1) : reviews[j].appVersion # Some(v)

\* a comes before b in Object.entries(versionCounts)
EntriesBefore(reviews, a, b) ==
    IF VersionIndex[a] # None /\ VersionIndex[b] # None
    THEN Get(VersionIndex[a]) < Get(VersionIndex[b])
    ELSE IF VersionIndex[a] # None THEN TRUE
    ELSE IF VersionIndex[b] # None THEN FALSE
    ELSE FirstSeen(reviews, a) < FirstSeen(reviews, b)

\* a comes before b after the stable `.sort(([, a], [, b]) => b - a)`
SortedBefore(reviews, a, b) ==
    \/ VersionCount(reviews, a) > VersionCount(reviews, b)
    \/ /\ VersionCount(reviews, a) = VersionCount(reviews, b)
       /\ EntriesBefore(reviews, a, b)

\* `.slice(0, 3).map(([version]) => version)`
TopVersions(reviews) ==
    LET keys == { v \in Versions : \E i \in DOMAIN reviews :
                    TruthyString(reviews[i].appVersion)
                        /\ reviews[i].appVersion = Some(v) }
        rank(v) == Cardinality({ w \in keys : SortedBefore(reviews, w, v) }) + 1
    IN [k \in 1..Min(TopVersionsCount, Cardinality(keys)) |->
            CHOOSE v \in keys : rank(v) = k]

\* extractReviewThemes; ratingDistribution and platforms are objects with one
\* key per rating or platform the loop met
ExtractReviewThemesFixedHistogram(reviews) ==
    IF Len(reviews) = 0
    THEN [totalReviews |-> 0, avgRating |-> [num |-> 0, den |-> 1],
          ratingDistribution |-> [r \in {} |-> 0], topVersions |-> <<>>,
          platforms |-> [p \in {} |-> 0]]
    ELSE [totalReviews |-> Len(reviews),
          avgRating |-> [num |-> SumSeq([i \in DOMAIN reviews |-> reviews[i].rating]),
                         den |-> Len(reviews)],
          ratingDistribution |->
              [r \in { reviews[i].rating : i \in DOMAIN reviews } \cap 4..5 |->
                  Cardinality({ i \in DOMAIN reviews : reviews[i].rating = r })],
          topVersions |-> TopVersions(reviews),
          platforms |->
              [p \in { reviews[i].platform : i \in DOMAIN reviews } |->
                  Cardinality({ i \in DOMAIN reviews : reviews[i].platform = p })]]

ExtractReviewThemes(reviews) ==
    IF Len(reviews) = 0
    THEN [totalReviews |-> 0, avgRating |-> [num |-> 0, den |-> 1],
          ratingDistribution |-> [r \in {} |-> 0], topVersions |-> <<>>,
          platforms |-> [p \in {} |-> 0]]
    ELSE [totalReviews |-> Len(reviews),
          avgRating |-> [num |-> SumSeq([i \in DOMAIN reviews |-> reviews[i].rating]),
                         den |-> Len(reviews)],
          ratingDistribution |->
              [r \in { reviews[i].rating : i \in DOMAIN reviews } |->
                  Cardinality({ i \in DOMAIN reviews : reviews[i].rating = r })],
          topVersions |-> TopVersions(reviews),
          platforms |->
              [p \in { reviews[i].platform : i \in DOMAIN reviews } |->
                  Cardinality({ i \in DOMAIN reviews : reviews[i].platform = p })]]

\* analyzeSentiment
AnalyzeSentiment(reviews) ==
    IF Len(reviews) = 0
    THEN [positive |-> 0, neutral |-> 0, negative |-> 0,
          positivePercentage |-> [num |-> 0, den |-> 1],
          negativePercentage |-> [num |-> 0, den |-> 1]]
    ELSE LET positive == Cardinality({ i \in DOMAIN reviews : reviews[i].rating >= 4 })
             neutral == Cardinality({ i \in DOMAIN reviews :
                            reviews[i].rating < 4 /\ reviews[i].rating = 3 })
             negative == Cardinality({ i \in DOMAIN reviews :
                            reviews[i].rating < 4 /\ reviews[i].rating # 3 })
         IN [positive |-> positive, neutral |-> neutral, negative |-> negative,
             positivePercentage |-> [num |-> positive * 100, den |-> Len(reviews)],
             negativePercentage |-> [num |-> negative * 100, den |-> Len(reviews)]]

\* prepareRAGContext, from the reviews retrieveContextReviews returned
PrepareRAGContext(query, cfg, contextReviews) ==
    [query |-> query,
     reviews |-> contextReviews,
     systemInstructions |-> cfg.agent_system_instructions,
     model |-> cfg.preferred_model,
     reviewCount |-> Len(contextReviews),
     avgSimilarity |-> AvgSimilarity(contextReviews)]

\* the options prepareRAGContext hands to retrieveContextReviews;
\* `maxReviews || config.max_context_reviews`
RagSearchOptions(options, cfg) ==
    SearchOptions(options.appId, options.platform,
                  Some(IF TruthyNumber(options.maxReviews)
                       THEN Get(options.maxReviews)
                       ELSE cfg.max_context_reviews),
                  Some(Default(options.similarityThreshold, RagDefaultThreshold)),
                  None)

\* executeRAGPipeline, from the reviews retrieveContextReviews returned
ExecuteRAGPipeline(query, cfg, contextReviews) ==
    LET context == PrepareRAGContext(query, cfg, contextReviews)
    IN [context |-> context,
        prompts |-> BuildRAGPrompt(context),
        metadata |-> [themes |-> ExtractReviewThemes(context.reviews),
                      sentiment |-> AnalyzeSentiment(context.reviews)]]

-----------------------------------------------------------------------------
(* lib/ai/chat.ts *)

\* getAIModel: the provider family and the model it is asked for
GetAIModelPassThrough(modelName, cfg) ==
    LET model == IF modelName # None /\ Get(modelName) # ""
                 THEN Get(modelName) ELSE cfg.preferred_model
    IN IF StartsWithGemini(model) THEN [family |-> "google", model |-> model]
       ELSE IF StartsWithGpt(model) THEN [family |-> "openai", model |-> model]
       ELSE [family |-> "google", model |-> model]

GetAIModel(modelName, cfg) ==
    LET model == IF modelName # None /\ Get(modelName) # ""
                 THEN Get(modelName) ELSE cfg.preferred_model
    IN IF StartsWithGemini(model) THEN [family |-> "google", model |-> model]
       ELSE IF StartsWithGpt(model) THEN [family |-> "openai", model |-> model]
       ELSE [family |-> "google", model |-> DefaultModel]

\* caller-supplied conversation histories: n messages of distinct contents
\* whose roles alternate, starting with `first`
Conversation(n, first) ==
    [i \in 1..n |->
        [role |-> IF i % 2 = 1 THEN first
                  ELSE IF first = "user" THEN "assistant" ELSE "user",
         content |-> [text |-> i]]]

Histories ==
    { Conversation(n, first) : n \in 0..MaxHistory, first \in {"user", "assistant"} }

\* the messages array of generateRAGChatStream, as streamText receives it
\* (`messages.map((m) => ({ role: m.role, content: m.content }))`)
BuildMessagesHistoryLast(prompts, conversationHistory) ==
    <<[role |-> "system", content |-> prompts.systemPrompt]>>
        \o <<[role |-> "user", content |-> prompts.userPrompt]>>
        \o (IF conversationHistory # None THEN Get(conversationHistory) ELSE <<>>)

BuildMessages(prompts, conversationHistory) ==
    <<[role |-> "system", content |-> prompts.systemPrompt]>>
        \o (IF conversationHistory # None THEN Get(conversationHistory) ELSE <<>>)
        \o <<[role |-> "user", content |-> prompts.userPrompt]>>

-----------------------------------------------------------------------------
(* The state of a chat turn that has not started *)

NoCalls == [embedding |-> 0, store |-> 0, generation |-> 0]

TurnIdle ==
    /\ pc = "idle"
    /\ req = None
    /\ config = None
    /\ queryEmbedding = None
    /\ ragResult = None
    /\ messages = <<>>
    /\ usedModel = None
    /\ calls = NoCalls
    /\ genState = "idle"
    /\ yielded = <<>>
    /\ textStream = <<>>
    /\ http = "none"
    /\ streamState = "none"
    /\ envelopes = <<>>
    /\ aborted = None
    /\ failure = "none"

\* no chat page is open and no other turn is active
NoChatInterface == [phase |-> "none"]
NoTurns == <<>>

OthersIdle == chatInterface = NoChatInterface /\ turns = NoTurns

-----------------------------------------------------------------------------
(* SpecSearch: the search library called directly, on every table of Stores *)

AppIdInputs == {None, Some(0)} \cup {Some(a) : a \in AppIds}
PlatformInputs == {None} \cup {Some(p) : p \in Platforms}
LimitInputs == {None} \cup {Some(n) : n \in 0..MaxLimit}
ThresholdInputs == {None, Some(0 - 50), Some(30), Some(70)}

\* threshold and configured embedding provider of a call
ThresholdAndProvider ==
    { <<t, "google">> : t \in ThresholdInputs } \cup { <<None, "openai">> }
ContextLengthInputs == {None, Some(0), Some(4), Some(MaxContextLength)}

NoCall == [op |-> "none"]
NoResult == [status |-> "none"]

\* the services as the search library and the chat turn find them
ServiceIdle ==
    /\ world = World(TRUE, TRUE, TRUE, EmptyTemplate)
    /\ embeddingService = NoClients
    /\ remoteConfig = NoConfigCache

InitSearch ==
    /\ ServiceIdle
    /\ store \in Stores
    /\ call = NoCall
    /\ result = NoResult
    /\ TurnIdle
    /\ OthersIdle

\* searchSimilarReviews(query, options), called once on the table; `provider`
\* is the configured embedding provider, used when the options name none
Search(query, options, provider) ==
    LET q == Embed(query, Default(options.embeddingProvider, provider))
    IN /\ call = NoCall
       /\ call' = [op |-> "searchSimilarReviews", query |-> query,
                   options |-> options, q |-> q]
       /\ IF DimensionMismatch(Table(store), q)
          THEN result' = [status |-> "error", error |-> "different vector dimensions"]
          ELSE \E res \in SearchSimilarReviews(Table(store), query, q, options) :
                  result' = [status |-> "ok", value |-> res]
       /\ UNCHANGED <<serviceVars, store, turnVars, otherVars>>

\* retrieveContextReviews(query, options) with options.maxContextLength
Retrieve(query, options, maxContextLength, provider) ==
    LET q == Embed(query, Default(options.embeddingProvider, provider))
    IN /\ call = NoCall
       /\ call' = [op |-> "retrieveContextReviews", query |-> query,
                   options |-> options, q |-> q,
                   maxContextLength |-> maxContextLength]
       /\ IF DimensionMismatch(Table(store), q)
          THEN result' = [status |-> "error", error |-> "different vector dimensions"]
          ELSE \E res \in RetrieveContextReviews(Table(store), query, q, options,
                                                 maxContextLength) :
                  result' = [status |-> "ok", value |-> res]
       /\ UNCHANGED <<serviceVars, store, turnVars, otherVars>>

SearchCall ==
    \E query \in Queries, a \in AppIdInputs, p \in PlatformInputs,
       l \in LimitInputs, tp \in ThresholdAndProvider :
        Search(query, SearchOptions(a, p, l, tp[1], None), tp[2])

RetrieveCall ==
    \E query \in Queries, l \in LimitInputs, tp \in ThresholdAndProvider,
       m \in ContextLengthInputs :
        Retrieve(query, SearchOptions(None, None, l, tp[1], None), m, tp[2])

\* findSimilarToReview(reviewId, options)
FindSimilar(reviewId, options) ==
    /\ call = NoCall
    /\ \E out \in FindSimilarToReview(Table(store), reviewId, options) :
          /\ call' = [op |-> "findSimilarToReview", reviewId |-> reviewId,
                      options |-> options, q |-> out.q, queries |-> out.queries]
          /\ result' = IF out.status = "ok"
                       THEN [status |-> "ok", value |-> out.value]
                       ELSE [status |-> "error", error |-> out.error]
    /\ UNCHANGED <<serviceVars, store, turnVars, otherVars>>

ReviewIds == 0..(MaxRows + 1)

FindSimilarCall ==
    \E reviewId \in ReviewIds, l \in LimitInputs, t \in ThresholdInputs :
        FindSimilar(reviewId, SearchOptions(None, None, l, t, None))

\* executeRAGPipeline(query, options) called directly, as scripts/test-rag.ts
\* does: getRemoteConfig answers `cfg` to prepareRAGContext and, later, a
\* configuration with embedding provider `provider` to generateEmbedding
ExecutePipeline(query, options, cfg, provider) ==
    LET q == Embed(query, provider)
        searchOptions == RagSearchOptions(options, cfg)
    IN /\ call = NoCall
       /\ call' = [op |-> "executeRAGPipeline", query |-> query,
                   options |-> searchOptions, q |-> q,
                   maxContextLength |-> Some(RagMaxContextLength),
                   ragOptions |-> options, config |-> cfg]
       /\ IF DimensionMismatch(Table(store), q)
          THEN result' = [status |-> "error", error |-> "different vector dimensions"]
          ELSE \E contextReviews \in
                    RetrieveContextReviews(Table(store), query, q, searchOptions,
                                           Some(RagMaxContextLength)) :
                  result' = [status |-> "ok",
                             value |-> ExecuteRAGPipeline(query, cfg, contextReviews)]
       /\ UNCHANGED <<serviceVars, store, turnVars, otherVars>>

RagOptions(appId, platform, maxReviews, threshold) ==
    [appId |-> appId, platform |-> platform, maxReviews |-> maxReviews,
     similarityThreshold |-> threshold]

PipelineCall ==
    \E query \in Queries, l \in LimitInputs, t \in ThresholdInputs,
       cfg \in ConfigValues, c \in ConfigValues :
        ExecutePipeline(query, RagOptions(None, None, l, t), cfg,
                        c.embedding_provider)

\* generateSimpleChat(query, {model}): getAIModel(options.model), then the
\* messages array without a system message, then the provider call
SimpleChat(query, conversationHistory, modelName, cfg) ==
    /\ call = NoCall
    /\ call' = [op |-> "generateSimpleChat", query |-> query,
                conversationHistory |-> conversationHistory,
                model |-> modelName, config |-> cfg]
    /\ result' = [status |-> "ok",
                  value |-> [model |-> GetAIModel(modelName, cfg),
                             messages |->
                                Default(conversationHistory, <<>>)
                                    \o <<[role |-> "user",
                                          content |-> [text |-> query]]>>]]
    /\ UNCHANGED <<serviceVars, store, turnVars, otherVars>>

ModelInputs == {None} \cup {Some(m) : m \in ModelIds}

SimpleChatCall ==
    \E query \in Queries, h \in {None, Some(Conversation(1, "user"))},
       m \in ModelInputs, cfg \in ConfigValues :
        SimpleChat(query, h, m, cfg)

NextSearch ==
    SearchCall \/ RetrieveCall \/ FindSimilarCall \/ PipelineCall \/ SimpleChatCall

SpecSearch == InitSearch /\ [][NextSearch]_vars

-----------------------------------------------------------------------------
(* SpecConfig: the configuration module read again and again while the clock
   advances and the service's template changes *)

MaxClock == 12        \* minutes the clock runs

InitConfig ==
    /\ world \in { World(TRUE, TRUE, firebase, template) :
                     firebase \in BOOLEAN, template \in Templates }
    /\ embeddingService = NoClients
    /\ remoteConfig = NoConfigCache
    /\ store = <<>>
    /\ call = NoCall
    /\ result = NoResult
    /\ TurnIdle
    /\ OthersIdle

\* what a caller of getRemoteConfig gets from the outcome `out`
ConfigResult(out) ==
    IF out.threw THEN [status |-> "error", error |-> "getTemplate failed"]
    ELSE [status |-> "ok", value |-> out.value]

\* getRemoteConfig() that keeps whatever it returns in the cache
ReadConfigCachesDefaults(fetchSucceeds) ==
    LET out == GetRemoteConfig(remoteConfig, world, fetchSucceeds)
    IN /\ call' = [op |-> "getRemoteConfig", now |-> world.now,
                   cacheValid |-> CacheValid(remoteConfig, world.now),
                   fetchSucceeds |-> fetchSucceeds, fetched |-> out.fetched,
                   before |-> remoteConfig]
       /\ result' = ConfigResult(out)
       /\ remoteConfig' = [configCache |-> Some(out.value),
                           cacheTimestamp |-> world.now]
       /\ UNCHANGED <<world, embeddingService, store, turnVars, otherVars>>

\* getRemoteConfig()
ReadConfig(fetchSucceeds) ==
    LET out == GetRemoteConfig(remoteConfig, world, fetchSucceeds)
    IN /\ call' = [op |-> "getRemoteConfig", now |-> world.now,
                   cacheValid |-> CacheValid(remoteConfig, world.now),
                   fetchSucceeds |-> fetchSucceeds, fetched |-> out.fetched,
                   before |-> remoteConfig]
       /\ result' = ConfigResult(out)
       /\ remoteConfig' = out.state
       /\ UNCHANGED <<world, embeddingService, store, turnVars, otherVars>>

\* refreshConfig(): the cache is dropped, then getRemoteConfig()
RefreshConfig(fetchSucceeds) ==
    LET out == GetRemoteConfig(NoConfigCache, world, fetchSucceeds)
    IN /\ call' = [op |-> "refreshConfig", now |-> world.now,
                   cacheValid |-> FALSE,
                   fetchSucceeds |-> fetchSucceeds, fetched |-> out.fetched,
                   before |-> remoteConfig]
       /\ result' = ConfigResult(out)
       /\ remoteConfig' = out.state
       /\ UNCHANGED <<world, embeddingService, store, turnVars, otherVars>>

\* a minute passes
Tick ==
    /\ world.now < MaxClock
    /\ world' = [world EXCEPT !.now = @ + 1]
    /\ UNCHANGED <<embeddingService, remoteConfig, store, call, result, turnVars, otherVars>>

\* the template held by the Remote Config service is replaced
PublishTemplate(template) ==
    /\ template # world.template
    /\ world' = [world EXCEPT !.template = template]
    /\ UNCHANGED <<embeddingService, remoteConfig, store, call, result, turnVars, otherVars>>

NextConfig ==
    \/ \E fetchSucceeds \in BOOLEAN : ReadConfig(fetchSucceeds)
    \/ \E fetchSucceeds \in BOOLEAN : RefreshConfig(fetchSucceeds)
    \/ Tick
    \/ \E template \in Templates : PublishTemplate(template)

SpecConfig == InitConfig /\ [][NextConfig]_vars

-----------------------------------------------------------------------------
(* SpecEmbed: the embedding service called again and again in one process *)

MaxTexts == 2         \* texts of a batch
MaxCalls == 2         \* calls of the service in one process

EmbeddingTexts == {"a", "b"}

\* the batches: every list of up to MaxTexts texts, and Scenario D
TextLists == SeqsUpTo(EmbeddingTexts, MaxTexts) \cup {<<"a", "b", "c">>}

\* the provider argument: absent, a known provider, or a value the type does
\* not allow
ProviderInputs == {None, Some("google"), Some("openai"), Some("cohere")}

InitEmbed ==
    /\ world \in { World(googleKey, openaiKey, firebase, template) :
                     googleKey \in BOOLEAN, openaiKey \in BOOLEAN,
                     firebase \in BOOLEAN, template \in {EmptyTemplate, GptTemplate} }
    /\ embeddingService = NoClients
    /\ remoteConfig = NoConfigCache
    /\ store = <<>>
    /\ call = NoCall
    /\ result = NoResult
    /\ TurnIdle
    /\ OthersIdle

Pending == [status |-> "pending"]

CallSerial == IF call = NoCall THEN 0 ELSE call.serial

\* generateEmbedding(text, provider) and generateEmbeddingsBatch(texts,
\* provider) up to the first await of a provider's API: the provider is read
\* from the configuration when the caller names none, the client is fetched
\* or constructed, and the requests are sent through it
StartEmbedding(op, texts, provider, fetchSucceeds) ==
    LET out == GetRemoteConfig(remoteConfig, world, fetchSucceeds)
        configured == provider = None
        selected == IF configured THEN out.value.embedding_provider ELSE Get(provider)
        client == GetClient(embeddingService, world, selected)
        this == [op |-> op, texts |-> texts, provider |-> provider,
                 selected |-> selected, serial |-> CallSerial + 1,
                 fetched |-> configured /\ out.fetched, before |-> remoteConfig,
                 constructed |-> FALSE, client |-> None, requests |-> <<>>]
    IN /\ result # Pending
       /\ CallSerial < MaxCalls
       /\ remoteConfig' = IF configured THEN out.state ELSE remoteConfig
       /\ IF selected \notin Providers
          THEN /\ call' = this
               /\ result' = [status |-> "error", error |-> "Unknown embedding provider"]
               /\ UNCHANGED embeddingService
          ELSE IF client.threw
          THEN /\ call' = [this EXCEPT !.constructed = client.constructed]
               /\ result' = [status |-> "error", error |-> MissingKey(selected)]
               /\ embeddingService' = client.service
          ELSE /\ call' = [this EXCEPT
                        !.constructed = client.constructed,
                        !.client = IF selected = "google"
                                   THEN client.service.googleClient
                                   ELSE client.service.openaiClient,
                        !.requests = ApiRequests(selected, op, texts)]
               /\ result' = Pending
               /\ embeddingService' = client.service
       /\ UNCHANGED <<world, store, turnVars, otherVars>>

\* every request of the call was answered: the call returns
ApiResolve ==
    /\ result = Pending
    /\ ~(call.selected = "openai" /\ call.texts = <<>>)
    /\ result' = [status |-> "ok",
                  value |-> EmbeddingValue(call.op, call.selected, call.texts)]
    /\ UNCHANGED <<serviceVars, store, call, turnVars, otherVars>>

\* a request of the call was refused (rate limit, server error, an empty
\* input): the call throws what the client threw
ApiReject ==
    /\ result = Pending
    /\ call.requests # <<>>
    /\ result' = [status |-> "error", error |-> "upstream"]
    /\ UNCHANGED <<serviceVars, store, call, turnVars, otherVars>>

GenerateEmbedding ==
    \E text \in EmbeddingTexts, provider \in ProviderInputs, fetchSucceeds \in BOOLEAN :
        StartEmbedding("generateEmbedding", <<text>>, provider, fetchSucceeds)

GenerateEmbeddingsBatch ==
    \E texts \in TextLists, provider \in ProviderInputs, fetchSucceeds \in BOOLEAN :
        StartEmbedding("generateEmbeddingsBatch", texts, provider, fetchSucceeds)

NextEmbed == GenerateEmbedding \/ GenerateEmbeddingsBatch \/ ApiResolve \/ ApiReject

SpecEmbed == InitEmbed /\ [][NextEmbed]_vars

-----------------------------------------------------------------------------
(* Spec: one chat turn, POST /api/chat (app/api/chat/route.ts) *)

Chunks == {"a", "b"}

\* request bodies: one that is not JSON, one that fails validation (empty
\* message), and the valid ones
Bodies ==
    {[kind |-> "malformed"], [kind |-> "invalid"]}
        \cup { [kind |-> "valid", message |-> m, appId |-> f[1],
                 platform |-> f[2], conversationHistory |-> h] :
                m \in Queries,
                f \in {<<None, None>>, <<Some(1), Some("android")>>},
                h \in {None} \cup {Some(x) : x \in Histories} }

\* tables a turn runs against: no review at all, Scenario A, and one review
\* too far from every query to pass the threshold
FarStore == << Row(1, "android", Some(StoredEmbedding(130)), 4, 1, 3, None) >>

TurnStores == {<<>>, ScenarioAStore, FarStore}

Init ==
    /\ ServiceIdle
    /\ store \in TurnStores
    /\ call = NoCall
    /\ result = NoResult
    /\ TurnIdle
    /\ OthersIdle

\* controller.enqueue(encoder.encode(`data: ${JSON.stringify(e)}\n\n`))
Enqueue(queue, e) == Append(queue, e)

MetadataEnvelope(res) ==
    [type |-> "metadata",
     data |-> [reviewCount |-> res.context.reviewCount,
               avgSimilarity |-> res.context.avgSimilarity,
               model |-> res.context.model,
               sentiment |-> res.metadata.sentiment,
               themes |-> res.metadata.themes,
               reviews |-> [i \in DOMAIN res.context.reviews |->
                              [id |-> res.context.reviews[i].id,
                               rating |-> res.context.reviews[i].rating,
                               titleLen |-> res.context.reviews[i].titleLen,
                               contentLen |-> res.context.reviews[i].contentLen,
                               similarity |-> res.context.reviews[i].similarity]]]]

TextEnvelope(chunk) == [type |-> "text", data |-> chunk]
DoneEnvelope == [type |-> "done"]
ErrorEnvelope == [type |-> "error", error |-> "Streaming failed"]

\* the outer catch of POST: a JSON body with status 500, no stream
Respond500(stage) ==
    /\ http' = "500"
    /\ failure' = stage
    /\ pc' = "finished"

\* request.json(), ChatRequestSchema.safeParse(body)
Post(body) ==
    /\ pc = "idle"
    /\ req' = Some(body)
    /\ IF body.kind = "malformed"
       THEN Respond500("body")
       ELSE IF body.kind = "invalid"
       THEN http' = "400" /\ failure' = "validation" /\ pc' = "finished"
       ELSE http' = http /\ failure' = failure /\ pc' = "prepare"
    /\ UNCHANGED <<serviceVars, otherVars, store, call, result, config, queryEmbedding, ragResult,
                   messages, usedModel, calls, genState, yielded, textStream,
                   streamState, envelopes, aborted>>

\* prepareRAGContext: `const config = await getRemoteConfig()`
PrepareContext(cfg) ==
    /\ pc = "prepare"
    /\ config' = Some(cfg)
    /\ pc' = "embed"
    /\ UNCHANGED <<serviceVars, otherVars, store, call, result, req, queryEmbedding, ragResult, messages,
                   usedModel, calls, genState, yielded, textStream, http,
                   streamState, envelopes, aborted, failure>>

\* generateEmbedding(query, undefined): the provider comes from the
\* configuration; without an API key the client getter throws before any
\* request is made, otherwise the embedding request is sent
EmbedCall(provider, hasApiKey) ==
    /\ pc = "embed"
    /\ IF hasApiKey
       THEN /\ calls' = [calls EXCEPT !.embedding = @ + 1]
            /\ queryEmbedding' = Some(Embed(Get(req).message, provider))
            /\ pc' = "awaitEmbedding"
            /\ UNCHANGED <<http, failure>>
       ELSE /\ Respond500("embedding")
            /\ UNCHANGED <<calls, queryEmbedding>>
    /\ UNCHANGED <<serviceVars, otherVars, store, call, result, req, config, ragResult, messages,
                   usedModel, genState, yielded, textStream, streamState,
                   envelopes, aborted>>

\* the embedding request returns its vector
EmbedResolve ==
    /\ pc = "awaitEmbedding"
    /\ pc' = "query"
    /\ UNCHANGED <<serviceVars, otherVars, store, call, result, req, config, queryEmbedding, ragResult,
                   messages, usedModel, calls, genState, yielded, textStream,
                   http, streamState, envelopes, aborted, failure>>

\* the embedding request fails (rate limit, server error)
EmbedReject ==
    /\ pc = "awaitEmbedding"
    /\ queryEmbedding' = None
    /\ Respond500("embedding")
    /\ UNCHANGED <<serviceVars, otherVars, store, call, result, req, config, ragResult, messages,
                   usedModel, calls, genState, yielded, textStream, streamState,
                   envelopes, aborted>>

\* the store query issued while the embedding request is still in flight
StoreCallEarly ==
    /\ pc \in {"query", "awaitEmbedding"}
    /\ calls' = [calls EXCEPT !.store = @ + 1]
    /\ pc' = "awaitStore"
    /\ UNCHANGED <<serviceVars, otherVars, store, call, result, req, config, queryEmbedding, ragResult,
                   messages, usedModel, genState, yielded, textStream, http,
                   streamState, envelopes, aborted, failure>>

\* `await pool.query(query_sql, params)` is issued
StoreCall ==
    /\ pc = "query"
    /\ calls' = [calls EXCEPT !.store = @ + 1]
    /\ pc' = "awaitStore"
    /\ UNCHANGED <<serviceVars, otherVars, store, call, result, req, config, queryEmbedding, ragResult,
                   messages, usedModel, genState, yielded, textStream, http,
                   streamState, envelopes, aborted, failure>>

\* the store query fails: the store is unavailable, or pgvector refuses the
\* query vector's dimensions
StoreRejectSwallowed ==
    /\ pc = "awaitStore"
    /\ failure' = "store"
    /\ ragResult' = Some(ExecuteRAGPipeline(Get(req).message, Get(config), <<>>))
    /\ pc' = "resolveModel"
    /\ UNCHANGED <<serviceVars, otherVars, store, call, result, req, config, queryEmbedding, messages,
                   usedModel, calls, genState, yielded, textStream, http,
                   streamState, envelopes, aborted>>

StoreReject ==
    /\ pc = "awaitStore"
    /\ Respond500("store")
    /\ UNCHANGED <<serviceVars, otherVars, store, call, result, req, config, queryEmbedding, ragResult,
                   messages, usedModel, calls, genState, yielded, textStream,
                   streamState, envelopes, aborted>>

\* the store query returns its rows; retrieveContextReviews packs them,
\* prepareRAGContext, buildRAGPrompt and the metadata extraction follow
\* without suspending
StoreResolve ==
    /\ pc = "awaitStore"
    /\ ~DimensionMismatch(Table(store), Get(queryEmbedding))
    /\ \E contextReviews \in
            RetrieveContextReviews(Table(store), Get(req).message,
                Get(queryEmbedding),
                RagSearchOptions([appId |-> Get(req).appId,
                                  platform |-> Get(req).platform,
                                  maxReviews |-> None,
                                  similarityThreshold |-> None], Get(config)),
                Some(RagMaxContextLength)) :
          ragResult' = Some(ExecuteRAGPipeline(Get(req).message, Get(config),
                                               contextReviews))
    /\ pc' = "resolveModel"
    /\ UNCHANGED <<serviceVars, otherVars, store, call, result, req, config, queryEmbedding, messages,
                   usedModel, calls, genState, yielded, textStream, http,
                   streamState, envelopes, aborted, failure>>

\* getAIModel(ragResult.context.model) with its own getRemoteConfig, the
\* messages array, and the call of streamText
ResolveModel(cfg) ==
    /\ pc = "resolveModel"
    /\ usedModel' = Some(GetAIModel(Some(Get(ragResult).context.model), cfg))
    /\ messages' = BuildMessages(Get(ragResult).prompts,
                                 Get(req).conversationHistory)
    /\ calls' = [calls EXCEPT !.generation = @ + 1]
    /\ pc' = "awaitStreamText"
    /\ UNCHANGED <<serviceVars, otherVars, store, call, result, req, config, queryEmbedding, ragResult,
                   genState, yielded, textStream, http, streamState, envelopes,
                   aborted, failure>>

\* streamText throws: the turn ends in the outer catch
StreamTextReject ==
    /\ pc = "awaitStreamText"
    /\ Respond500("generation")
    /\ UNCHANGED <<serviceVars, otherVars, store, call, result, req, config, queryEmbedding, ragResult,
                   messages, usedModel, calls, genState, yielded, textStream,
                   streamState, envelopes, aborted>>

\* streamText returns; the route constructs the ReadableStream, whose start()
\* runs at once up to its first await: the metadata envelope is enqueued
OpenStream ==
    /\ pc = "awaitStreamText"
    /\ genState' = "streaming"
    /\ http' = "stream"
    /\ streamState' = "readable"
    /\ envelopes' = Enqueue(envelopes, MetadataEnvelope(Get(ragResult)))
    /\ pc' = "streaming"
    /\ UNCHANGED <<serviceVars, otherVars, store, call, result, req, config, queryEmbedding, ragResult,
                   messages, usedModel, calls, yielded, textStream, aborted,
                   failure>>

\* the generation provider produces the next chunk of its text stream
ProviderYield(chunk) ==
    /\ genState = "streaming"
    /\ Len(yielded) < MaxChunks
    /\ yielded' = Append(yielded, chunk)
    /\ textStream' = Append(textStream, chunk)
    /\ UNCHANGED <<serviceVars, otherVars, store, call, result, pc, req, config, queryEmbedding,
                   ragResult, messages, usedModel, calls, genState, http,
                   streamState, envelopes, aborted, failure>>

\* the generation provider ends its text stream normally
ProviderFinish ==
    /\ genState = "streaming"
    /\ genState' = "finished"
    /\ UNCHANGED <<serviceVars, otherVars, store, call, result, pc, req, config, queryEmbedding,
                   ragResult, messages, usedModel, calls, yielded, textStream,
                   http, streamState, envelopes, aborted, failure>>

\* the generation provider's stream fails; chunks produced and not yet read
\* are either still delivered before the error or dropped with it
ProviderFail(dropPending) ==
    /\ genState = "streaming"
    /\ genState' = "failed"
    /\ textStream' = IF dropPending THEN <<>> ELSE textStream
    /\ UNCHANGED <<serviceVars, otherVars, store, call, result, pc, req, config, queryEmbedding,
                   ragResult, messages, usedModel, calls, yielded, http,
                   streamState, envelopes, aborted, failure>>

\* an enqueue on a stream the consumer has cancelled throws; so does the
\* enqueue in the catch block and the close in the finally block, and start()
\* ends without having emitted anything
ThrowOnCancelledStream ==
    /\ pc' = "finished"
    /\ UNCHANGED <<envelopes, streamState>>

\* which pending chunk the for-await hands to the loop body
NextChunkNewest(pending) == pending[Len(pending)]

NextChunk(pending) == Head(pending)

RemoveChunk(pending, chunk) ==
    IF chunk = Head(pending) THEN Tail(pending)
    ELSE SubSeq(pending, 1, Len(pending) - 1)

\* one iteration of `for await (const chunk of result.textStream)`
RouteReadChunk ==
    /\ pc = "streaming"
    /\ textStream # <<>>
    /\ LET chunk == NextChunk(textStream)
       IN /\ textStream' = RemoveChunk(textStream, chunk)
          /\ IF streamState = "readable"
             THEN /\ envelopes' = Enqueue(envelopes, TextEnvelope(chunk))
                  /\ UNCHANGED <<pc, streamState>>
             ELSE ThrowOnCancelledStream
    /\ UNCHANGED <<serviceVars, otherVars, store, call, result, req, config, queryEmbedding, ragResult,
                   messages, usedModel, calls, genState, yielded, http, aborted,
                   failure>>

\* the text stream is exhausted: the done envelope, then finally close()
RouteStreamEndSilent ==
    /\ pc = "streaming"
    /\ textStream = <<>>
    /\ genState = "finished"
    /\ IF streamState = "readable"
       THEN /\ envelopes' = envelopes
            /\ streamState' = "closed"
            /\ pc' = "finished"
       ELSE ThrowOnCancelledStream
    /\ UNCHANGED <<serviceVars, otherVars, store, call, result, req, config, queryEmbedding, ragResult,
                   messages, usedModel, calls, genState, yielded, textStream,
                   http, aborted, failure>>

RouteStreamEnd ==
    /\ pc = "streaming"
    /\ textStream = <<>>
    /\ genState = "finished"
    /\ IF streamState = "readable"
       THEN /\ envelopes' = Enqueue(envelopes, DoneEnvelope)
            /\ streamState' = "closed"
            /\ pc' = "finished"
       ELSE ThrowOnCancelledStream
    /\ UNCHANGED <<serviceVars, otherVars, store, call, result, req, config, queryEmbedding, ragResult,
                   messages, usedModel, calls, genState, yielded, textStream,
                   http, aborted, failure>>

\* the text stream throws: catch enqueues the error envelope, finally close()
RouteStreamErrorSilent ==
    /\ pc = "streaming"
    /\ textStream = <<>>
    /\ genState = "failed"
    /\ failure' = "stream"
    /\ IF streamState = "readable"
       THEN /\ envelopes' = envelopes
            /\ streamState' = "closed"
            /\ pc' = "finished"
       ELSE ThrowOnCancelledStream
    /\ UNCHANGED <<serviceVars, otherVars, store, call, result, req, config, queryEmbedding, ragResult,
                   messages, usedModel, calls, genState, yielded, textStream,
                   http, aborted>>

RouteStreamError ==
    /\ pc = "streaming"
    /\ textStream = <<>>
    /\ genState = "failed"
    /\ failure' = "stream"
    /\ IF streamState = "readable"
       THEN /\ envelopes' = Enqueue(envelopes, ErrorEnvelope)
            /\ streamState' = "closed"
            /\ pc' = "finished"
       ELSE ThrowOnCancelledStream
    /\ UNCHANGED <<serviceVars, otherVars, store, call, result, req, config, queryEmbedding, ragResult,
                   messages, usedModel, calls, genState, yielded, textStream,
                   http, aborted>>

\* the caller cancels the request (or its deadline expires) while the turn
\* is under way; nothing in the handler observes request.signal
Abort ==
    /\ pc \notin {"idle", "finished"}
    /\ aborted = None
    /\ aborted' = Some([at |-> pc, emitted |-> Len(envelopes), calls |-> calls])
    /\ UNCHANGED <<serviceVars, otherVars, store, call, result, pc, req, config, queryEmbedding,
                   ragResult, messages, usedModel, calls, genState, yielded,
                   textStream, http, streamState, envelopes, failure>>

\* the transport cancels the response body of a caller that went away
CancelStream ==
    /\ aborted # None
    /\ streamState = "readable"
    /\ streamState' = "cancelled"
    /\ UNCHANGED <<serviceVars, otherVars, store, call, result, pc, req, config, queryEmbedding,
                   ragResult, messages, usedModel, calls, genState, yielded,
                   textStream, http, envelopes, aborted, failure>>

Next ==
    \/ \E body \in Bodies : Post(body)
    \/ \E cfg \in ConfigValues : PrepareContext(cfg)
    \/ \E provider \in Providers, hasApiKey \in BOOLEAN : EmbedCall(provider, hasApiKey)
    \/ EmbedResolve
    \/ EmbedReject
    \/ StoreCall
    \/ StoreReject
    \/ StoreResolve
    \/ \E cfg \in ConfigValues : ResolveModel(cfg)
    \/ StreamTextReject
    \/ OpenStream
    \/ \E chunk \in Chunks : ProviderYield(chunk)
    \/ ProviderFinish
    \/ \E dropPending \in BOOLEAN : ProviderFail(dropPending)
    \/ RouteReadChunk
    \/ RouteStreamEnd
    \/ RouteStreamError
    \/ Abort
    \/ CancelStream

Spec == Init /\ [][Next]_vars

-----------------------------------------------------------------------------
(* SpecClient: the chat page, ChatInterface.handleSubmit, reading the      *)
(* response of one turn                                                    *)

\* a message of the page; its content is kept as the text chunks it is the
\* concatenation of ("" is <<>>)
PageMessage(role, content) == [role |-> role, content |-> content]

\* what the page shows when the user submits: nothing, or an earlier exchange
PriorMessages ==
    { <<>>,
      << PageMessage("user", <<"q">>), PageMessage("assistant", <<"a">>) >> }

\* the text the user submits, and String.prototype.trim on it
Submitted == {"", "  ", "why?"}
Trim(message) == IF message = "  " THEN "" ELSE message

\* the state of the component: useState values, and the locals of a running
\* handleSubmit (`parsed` keeps the types of the lines JSON.parse accepted)
ChatInterfaceIdle(prior) ==
    [phase |-> "idle", messages |-> prior, loading |-> FALSE, toasts |-> <<>>,
     currentMetadata |-> None, assistantResponse |-> <<>>,
     assistantMessageIndex |-> 0, next |-> 1, parsed |-> <<>>]

\* the metadata envelope of a turn that found no review
EmptyContextMetadata ==
    MetadataEnvelope(ExecuteRAGPipeline("app crashes when opening",
                                        ParseConfigValues(DEFAULT_CONFIG), <<>>))

\* the envelope sequences of a turn that opened its stream and ended it
Streams ==
    { <<EmptyContextMetadata>> \o [i \in DOMAIN texts |-> TextEnvelope(texts[i])]
          \o <<end>> :
        texts \in SeqsUpTo(Chunks, MaxChunks),
        end \in {DoneEnvelope, ErrorEnvelope} }

\* the page is open, and the turn it will ask for answers with a status
\* other than 200, with a stream, or not at all ("none": fetch rejects)
InitClient ==
    /\ ServiceIdle
    /\ store = <<>>
    /\ call = NoCall
    /\ result = NoResult
    /\ turns = NoTurns
    /\ pc = "finished"
    /\ req = None
    /\ config = None
    /\ queryEmbedding = None
    /\ ragResult = None
    /\ messages = <<>>
    /\ usedModel = None
    /\ calls = NoCalls
    /\ genState = "idle"
    /\ yielded = <<>>
    /\ textStream = <<>>
    /\ aborted = None
    /\ failure = "none"
    /\ http \in {"none", "400", "500", "stream"}
    /\ envelopes \in IF http = "stream" THEN Streams ELSE {<<>>}
    /\ streamState = IF http = "stream" THEN "closed" ELSE "none"
    /\ chatInterface \in { ChatInterfaceIdle(prior) : prior \in PriorMessages }

\* the catch block of handleSubmit, followed by its finally block
Catch(c, description) ==
    [c EXCEPT !.toasts = Append(@, description),
              !.messages = SubSeq(@, 1, Len(@) - 1),
              !.loading = FALSE,
              !.phase = "done"]

\* handleSubmit(message) up to `await fetch("/api/chat", ...)`
HandleSubmit(message) ==
    /\ chatInterface.phase = "idle"
    /\ chatInterface' =
          IF Trim(message) = "" \/ chatInterface.loading THEN chatInterface
          ELSE [chatInterface EXCEPT
                  !.messages = @ \o << PageMessage("user", <<message>>),
                                       PageMessage("assistant", <<>>) >>,
                  !.loading = TRUE,
                  !.assistantMessageIndex = Len(chatInterface.messages) + 1,
                  !.phase = "fetching"]
    /\ UNCHANGED <<serviceVars, store, call, result, turnVars, turns>>

\* fetch returns or rejects; `if (!res.ok) throw`
FetchReturn ==
    /\ chatInterface.phase = "fetching"
    /\ chatInterface' =
          IF http = "none" THEN Catch(chatInterface, "Failed to fetch")
          ELSE IF http # "stream"
          THEN Catch(chatInterface, "Failed to get response")
          ELSE [chatInterface EXCEPT !.phase = "reading"]
    /\ UNCHANGED <<serviceVars, store, call, result, turnVars, turns>>

\* `newMessages[assistantMessageIndex] = ...` on a copy of the array
SetIndex(array, index, value) ==
    IF index + 1 <= Len(array) THEN [array EXCEPT ![index + 1] = value]
    ELSE Append(array, value)

\* the body of `try { const data = JSON.parse(line.slice(6)); ... } catch (e) {}`
\* for the line of envelope e: whatever is thrown inside, a SyntaxError of
\* JSON.parse or the Error thrown for an error envelope, is caught and dropped
HandleLine(c, e) ==
    LET seen == [c EXCEPT !.parsed = Append(@, e.type)]
    IN IF e.type = "metadata"
       THEN [seen EXCEPT !.currentMetadata = Some(e.data)]
       ELSE IF e.type = "text"
       THEN LET response == Append(c.assistantResponse, e.data)
            IN [seen EXCEPT
                  !.assistantResponse = response,
                  !.messages = SetIndex(@, c.assistantMessageIndex,
                                        PageMessage("assistant", response))]
       ELSE seen

\* reader.read() returns the next envelope's line: in one piece, or cut in
\* two by the transport, and then neither piece is a line JSON.parse accepts
ReadLine(whole) ==
    /\ chatInterface.phase = "reading"
    /\ chatInterface.next <= Len(envelopes)
    /\ chatInterface' =
          [(IF whole
            THEN HandleLine(chatInterface, envelopes[chatInterface.next])
            ELSE chatInterface)
           EXCEPT !.next = @ + 1]
    /\ UNCHANGED <<serviceVars, store, call, result, turnVars, turns>>

\* reader.read() returns done: the loop is left, `finally` clears loading
ReadEnd ==
    /\ chatInterface.phase = "reading"
    /\ chatInterface.next > Len(envelopes)
    /\ chatInterface' = [chatInterface EXCEPT !.loading = FALSE, !.phase = "done"]
    /\ UNCHANGED <<serviceVars, store, call, result, turnVars, turns>>

\* reader.read() rejects: the connection was lost
ReadFail ==
    /\ chatInterface.phase = "reading"
    /\ chatInterface.next <= Len(envelopes)
    /\ chatInterface' = Catch(chatInterface, "network error")
    /\ UNCHANGED <<serviceVars, store, call, result, turnVars, turns>>

NextClient ==
    \/ \E message \in Submitted : HandleSubmit(message)
    \/ FetchReturn
    \/ \E whole \in BOOLEAN : ReadLine(whole)
    \/ ReadEnd
    \/ ReadFail

SpecClient == InitClient /\ [][NextClient]_vars

-----------------------------------------------------------------------------
(* SpecTurns: chat turns of one process (POST /api/chat handlers) that are *)
(* active at the same time and run interleaved at their awaits.  They share *)
(* the module state of remote-config.ts and embeddings.ts and the table.    *)
(* The configuration service answers every request.                        *)

TurnIds == {"A", "B"}

\* the valid request of each turn
TurnRequest ==
    "A" :> [kind |-> "valid", message |-> "app crashes when opening",
            appId |-> None, platform |-> None, conversationHistory |-> None]
    @@ "B" :> [kind |-> "valid", message |-> "app crashes when opening",
               appId |-> Some(1), platform |-> Some("ios"),
               conversationHistory |-> Some(Conversation(2, "user"))]

\* the locals of a handler that has not started
NewTurn ==
    [pc |-> "idle", req |-> None, config |-> None, queryEmbedding |-> None,
     ragResult |-> None, messages |-> <<>>, usedModel |-> None,
     http |-> "none", envelopes |-> <<>>]

InitTurns ==
    /\ world \in { World(TRUE, TRUE, TRUE, template) : template \in Templates }
    /\ embeddingService = NoClients
    /\ remoteConfig = NoConfigCache
    /\ store = ScenarioAStore
    /\ call = NoCall
    /\ result = NoResult
    /\ TurnIdle
    /\ chatInterface = NoChatInterface
    /\ turns = [t \in TurnIds |-> NewTurn]

\* the outer catch of POST
TurnRespond500(turn) == [turn EXCEPT !.http = "500", !.pc = "finished"]

\* POST up to the end of prepareRAGContext's `await getRemoteConfig()`
TurnPost(t) ==
    LET out == GetRemoteConfig(remoteConfig, world, TRUE)
    IN /\ turns[t].pc = "idle"
       /\ turns' = [turns EXCEPT ![t] =
                       [@ EXCEPT !.req = Some(TurnRequest[t]),
                                 !.config = Some(out.value),
                                 !.pc = "embed"]]
       /\ remoteConfig' = out.state
       /\ UNCHANGED <<world, embeddingService, store, call, result, turnVars,
                      chatInterface>>

\* generateEmbedding(query, undefined) up to the await of the provider's API
TurnEmbed(t) ==
    LET out == GetRemoteConfig(remoteConfig, world, TRUE)
        provider == out.value.embedding_provider
        got == GetClient(embeddingService, world, provider)
    IN /\ turns[t].pc = "embed"
       /\ turns' = [turns EXCEPT ![t] =
                       IF got.threw THEN TurnRespond500(@)
                       ELSE [@ EXCEPT
                               !.queryEmbedding =
                                   Some(Embed(Get(turns[t].req).message, provider)),
                               !.pc = "awaitEmbedding"]]
       /\ remoteConfig' = out.state
       /\ embeddingService' = got.service
       /\ UNCHANGED <<world, store, call, result, turnVars, chatInterface>>

\* the embedding request returns; pool.query is issued
TurnEmbedResolve(t) ==
    /\ turns[t].pc = "awaitEmbedding"
    /\ turns' = [turns EXCEPT ![t] = [@ EXCEPT !.pc = "awaitStore"]]
    /\ UNCHANGED <<serviceVars, store, call, result, turnVars, chatInterface>>

\* the store answers the query a turn with the request `request`, the
\* configuration `cfg` and the query vector q waits for; the context is
\* assembled and the prompts are built
TurnContext(request, cfg, q) ==
    IF DimensionMismatch(Table(store), q) THEN {}
    ELSE { ExecuteRAGPipeline(request.message, cfg, contextReviews) :
             contextReviews \in
               RetrieveContextReviews(Table(store), request.message, q,
                   RagSearchOptions([appId |-> request.appId,
                                     platform |-> request.platform,
                                     maxReviews |-> None,
                                     similarityThreshold |-> None], cfg),
                   Some(RagMaxContextLength)) }

\* the answer is handed to whichever turn waits for the store, with the
\* context of any turn's request
TurnStoreResolveAnyRequest(t) ==
    LET turn == turns[t]
        contexts == UNION { TurnContext(TurnRequest[u], Get(turn.config),
                                        Get(turn.queryEmbedding)) : u \in TurnIds }
    IN /\ turn.pc = "awaitStore"
       /\ IF contexts = {}
          THEN turns' = [turns EXCEPT ![t] = TurnRespond500(@)]
          ELSE \E res \in contexts :
                  turns' = [turns EXCEPT ![t] =
                              [@ EXCEPT !.ragResult = Some(res),
                                        !.pc = "resolveModel"]]
       /\ UNCHANGED <<serviceVars, store, call, result, turnVars, chatInterface>>

TurnStoreResolve(t) ==
    LET turn == turns[t]
        contexts == TurnContext(Get(turn.req), Get(turn.config),
                                Get(turn.queryEmbedding))
    IN /\ turn.pc = "awaitStore"
       /\ IF contexts = {}
          THEN turns' = [turns EXCEPT ![t] = TurnRespond500(@)]
          ELSE \E res \in contexts :
                  turns' = [turns EXCEPT ![t] =
                              [@ EXCEPT !.ragResult = Some(res),
                                        !.pc = "resolveModel"]]
       /\ UNCHANGED <<serviceVars, store, call, result, turnVars, chatInterface>>

\* an awaited call is refused: the embedding request, the store query or
\* streamText throws
TurnReject(t) ==
    /\ turns[t].pc \in {"awaitEmbedding", "awaitStore", "resolveModel"}
    /\ turns' = [turns EXCEPT ![t] = TurnRespond500(@)]
    /\ UNCHANGED <<serviceVars, store, call, result, turnVars, chatInterface>>

\* getAIModel with its `await getRemoteConfig()`, the message list, the call
\* of streamText, and the start of the stream with its metadata envelope
TurnGenerate(t) ==
    LET out == GetRemoteConfig(remoteConfig, world, TRUE)
        res == Get(turns[t].ragResult)
    IN /\ turns[t].pc = "resolveModel"
       /\ turns' = [turns EXCEPT ![t] =
                       [@ EXCEPT
                          !.usedModel = Some(GetAIModel(Some(res.context.model),
                                                        out.value)),
                          !.messages = BuildMessages(res.prompts,
                                          Get(turns[t].req).conversationHistory),
                          !.http = "stream",
                          !.envelopes = Enqueue(@, MetadataEnvelope(res)),
                          !.pc = "streaming"]]
       /\ remoteConfig' = out.state
       /\ UNCHANGED <<world, embeddingService, store, call, result, turnVars,
                      chatInterface>>

\* the next chunk of the generation stream is forwarded
TurnText(t, chunk) ==
    /\ turns[t].pc = "streaming"
    /\ Len(turns[t].envelopes) <= MaxChunks
    /\ turns' = [turns EXCEPT ![t] =
                    [@ EXCEPT !.envelopes = Enqueue(@, TextEnvelope(chunk))]]
    /\ UNCHANGED <<serviceVars, store, call, result, turnVars, chatInterface>>

\* the generation stream ends, normally or with an error
TurnEnd(t, failed) ==
    /\ turns[t].pc = "streaming"
    /\ turns' = [turns EXCEPT ![t] =
                    [@ EXCEPT
                       !.envelopes = Enqueue(@, IF failed THEN ErrorEnvelope
                                                ELSE DoneEnvelope),
                       !.pc = "finished"]]
    /\ UNCHANGED <<serviceVars, store, call, result, turnVars, chatInterface>>

\* ten minutes pass: whatever the cache holds is expired
CacheExpires ==
    /\ world.now + CACHE_TTL_MS <= MaxClock
    /\ world' = [world EXCEPT !.now = @ + CACHE_TTL_MS]
    /\ UNCHANGED <<embeddingService, remoteConfig, store, call, result, turnVars,
                   otherVars>>

NextTurns ==
    \/ \E t \in TurnIds : TurnPost(t)
    \/ \E t \in TurnIds : TurnEmbed(t)
    \/ \E t \in TurnIds : TurnEmbedResolve(t)
    \/ \E t \in TurnIds : TurnStoreResolve(t)
    \/ \E t \in TurnIds : TurnReject(t)
    \/ \E t \in TurnIds : TurnGenerate(t)
    \/ \E t \in TurnIds, chunk \in Chunks : TurnText(t, chunk)
    \/ \E t \in TurnIds, failed \in BOOLEAN : TurnEnd(t, failed)
    \/ \E template \in Templates : PublishTemplate(template)
    \/ CacheExpires

SpecTurns == InitTurns /\ [][NextTurns]_vars

-----------------------------------------------------------------------------
(* Claims about the chat turn, checked under Spec *)

CountType(t) == Cardinality({ i \in DOMAIN envelopes : envelopes[i].type = t })

IsText(e) == e.type = "text"
TextData ==
    LET texts == SelectSeq(envelopes, IsText)
    IN [i \in DOMAIN texts |-> texts[i].data]

Terminal(e) == e.type \in {"done", "error"}

LastEnvelope == envelopes[Len(envelopes)]

\* C1: once the event stream is open, the metadata envelope has been emitted
\* exactly once and is the first envelope, and the text envelopes carry the
\* provider's chunks in the order the provider produced them.
C1_MetadataFirstTextInOrder ==
    /\ streamState = "none" => envelopes = <<>>
    /\ streamState # "none" =>
          /\ Len(envelopes) >= 1
          /\ envelopes[1].type = "metadata"
          /\ CountType("metadata") = 1
    /\ IsPrefix(TextData, yielded)

\* a completed stream that carried two different chunks
C1_Witness ==
    /\ streamState = "closed"
    /\ TextData = <<"a", "b">>
    /\ envelopes[1].type = "metadata"

RetrievalFailed == failure \in {"embedding", "store"}

SuspensionPoints == {"awaitEmbedding", "awaitStore", "awaitStreamText", "streaming"}

\* C5: after the caller cancelled a turn suspended at one of these points,
\* in-flight work is abandoned (no further external call), no further text
\* envelope is produced, and the turn ends with a terminal error envelope.
C5_CancellationEmitsError ==
    (aborted # None /\ Get(aborted).at \in SuspensionPoints) =>
        /\ calls = Get(aborted).calls
        /\ \A i \in DOMAIN envelopes :
              i > Get(aborted).emitted => envelopes[i].type # "text"
        /\ pc = "finished" => envelopes # <<>> /\ LastEnvelope.type = "error"

ZeroCandidates == ragResult # None /\ Len(Get(ragResult).context.reviews) = 0

\* C6: with zero candidates the turn goes on: reviewCount 0 and avgSimilarity
\* 0 in the context and in the metadata envelope, a prompt that says no
\* reviews were found, the generation call, and done when generation succeeds.
C6_EmptyContextIsNotAnError ==
    ZeroCandidates =>
        LET res == Get(ragResult)
        IN /\ res.context.reviewCount = 0
           /\ res.context.avgSimilarity.num = 0
           /\ res.prompts.userPrompt.reviewsContext.text = NoReviewsFound
           /\ res.prompts.systemPrompt.reviewCount = 0
           /\ ~RetrievalFailed
           /\ pc # "resolveModel" => calls.generation = 1
           /\ streamState # "none" =>
                 /\ envelopes[1].type = "metadata"
                 /\ envelopes[1].data.reviewCount = 0
                 /\ envelopes[1].data.avgSimilarity.num = 0
                 /\ envelopes[1].data.reviews = <<>>
           /\ (pc = "finished" /\ genState = "finished" /\ streamState = "closed")
                 => LastEnvelope.type = "done"

\* a table with a review, none of which passes the threshold; the turn ended
\* with done
C6_Witness ==
    /\ ZeroCandidates
    /\ store = FarStore
    /\ streamState = "closed"
    /\ LastEnvelope.type = "done"
    /\ envelopes[1].data.reviewCount = 0

\* the conversation history the caller supplied with the request
CallerHistory ==
    IF Get(req).conversationHistory = None THEN <<>>
    ELSE Get(Get(req).conversationHistory)

\* C12: the message list handed to the generation provider is one system
\* message carrying the built system prompt, then the caller's conversation
\* history message by message in its order, then one user message carrying
\* the user prompt with the retrieved context, and nothing else.
C12_MessageOrder ==
    calls.generation > 0 =>
        /\ Len(messages) = Len(CallerHistory) + 2
        /\ messages[1] = [role |-> "system",
                          content |-> Get(ragResult).prompts.systemPrompt]
        /\ \A i \in DOMAIN CallerHistory : messages[i + 1] = CallerHistory[i]
        /\ messages[Len(messages)] = [role |-> "user",
                                      content |-> Get(ragResult).prompts.userPrompt]
        /\ Get(ragResult).prompts.userPrompt.question = Get(req).message

\* the provider was called with a history of two different messages and a
\* prompt that carries retrieved reviews
C12_Witness ==
    /\ calls.generation = 1
    /\ Len(CallerHistory) = 2
    /\ CallerHistory[1] # CallerHistory[2]
    /\ Len(messages) = 4
    /\ Len(Get(ragResult).context.reviews) > 0

\* the embedding request of the turn was made and has returned its vector
EmbeddingReturned ==
    /\ calls.embedding = 1
    /\ queryEmbedding # None
    /\ pc \notin {"embed", "awaitEmbedding"}

\* C23: the steps of a turn run one after the other: the embedding request is
\* made after the configuration was read, the store query is issued only
\* after the embedding request returned, the context is assembled from the
\* answer of the store query, the generation call is made only with the
\* assembled context and the messages built from its prompts, and envelopes
\* are sent only after the generation call.
C23_StepsInOrder ==
    [][ /\ calls'.embedding # calls.embedding =>
              config # None /\ calls.store = 0 /\ calls.generation = 0
        /\ calls'.store # calls.store =>
              EmbeddingReturned /\ ragResult = None /\ calls.generation = 0
        /\ ragResult' # ragResult =>
              calls.store = 1 /\ pc = "awaitStore" /\ calls.generation = 0
        /\ calls'.generation # calls.generation =>
              /\ ragResult # None
              /\ messages' = BuildMessages(Get(ragResult).prompts,
                                           Get(req).conversationHistory)
              /\ envelopes = <<>>
        /\ envelopes' # envelopes =>
              calls.generation = 1 /\ usedModel # None /\ messages # <<>>
      ]_vars

\* a turn that made all three calls and streamed to the end
C23_Witness ==
    /\ calls = [store |-> 1, embedding |-> 1, generation |-> 1]
    /\ Len(envelopes) >= 3
    /\ LastEnvelope.type = "done"

\* C27: the model identifier a turn reports in its metadata envelope is the
\* model its generation call was made with.
C27_ReportedModelIsUsedModel ==
    \A i \in DOMAIN envelopes :
        envelopes[i].type = "metadata" =>
            /\ usedModel # None
            /\ envelopes[i].data.model = Get(usedModel).model

-----------------------------------------------------------------------------
(* Claims about the search library, checked under SpecSearch *)

SearchReturned == call.op = "searchSimilarReviews" /\ result.status = "ok"
RetrieveReturned == call.op = "retrieveContextReviews" /\ result.status = "ok"

CallLimit == Default(call.options.limit, DefaultSearchLimit)
CallThreshold == Default(call.options.similarityThreshold, DefaultSearchThreshold)
CallMaxContextLength == Default(call.maxContextLength, DefaultMaxContextLength)

Similarities(reviews) == [i \in DOMAIN reviews |-> reviews[i].similarity]
Lengths(reviews) == [i \in DOMAIN reviews |-> reviews[i].titleLen + reviews[i].contentLen]
Ids(reviews) == { reviews[i].id : i \in DOMAIN reviews }

\* the rows of the table the query's WHERE clause and threshold select
Qualifying ==
    { r \in Table(store) :
        /\ WhereClause(r, call.options.appId, call.options.platform)
        /\ Similarity(r, call.q) > CallThreshold }

\* C7: retrieveContextReviews accepts at most `limit` candidates, and their
\* title.length + content.length sum to at most maxContextLength.
C7_BudgetRespected ==
    RetrieveReturned =>
        /\ Len(result.value) <= CallLimit
        /\ SumSeq(Lengths(result.value)) <= CallMaxContextLength

\* a candidate above the threshold was left out because of the character
\* budget, while the count budget was not yet used up
C7_Witness ==
    /\ RetrieveReturned
    /\ Len(result.value) >= 1
    /\ Len(result.value) < CallLimit
    /\ \E r \in Qualifying : r.id \notin Ids(result.value)

\* the candidates the scan of retrieveContextReviews goes through, when the
\* doubled limit of its search leaves none of the qualifying rows out
Candidates == IF Cardinality(Qualifying) <= 2 * CallLimit THEN Qualifying ELSE {}

\* C22: the scan skips a candidate that does not fit the character budget and
\* goes on with the lower-ranked ones: as long as fewer than `limit`
\* candidates were accepted, every candidate left out is one that does not
\* fit in what remains of maxContextLength.
C22_OverBudgetCandidateIsSkipped ==
    (RetrieveReturned /\ Len(result.value) < CallLimit) =>
        \A r \in Candidates :
            r.id \notin Ids(result.value) =>
                SumSeq(Lengths(result.value)) + r.row.titleLen + r.row.contentLen
                    > CallMaxContextLength

\* a call that embedded a query and went to the table with it
QueryIssued ==
    call # NoCall
        /\ call.op \in {"searchSimilarReviews", "retrieveContextReviews",
                        "executeRAGPipeline"}

\* C28: the query vector of a nearest-neighbour query has the dimensions of
\* every stored embedding of the table it is compared with: it comes from
\* the provider the stored embeddings came from.
C28_QueryAndRecordsSameDimensions ==
    QueryIssued =>
        \A r \in Table(store) :
            r.row.embedding # None =>
                Get(r.row.embedding).dim = call.q.dim

\* C8: a search returns only candidates with similarity strictly above the
\* threshold, at most `limit` of them, and they are the `limit` most similar
\* of the qualifying rows; Scenario A returns 0.92, 0.81, 0.55.
C8_ThresholdAndLimit ==
    SearchReturned =>
        LET reviews == result.value.reviews
        IN /\ \A i \in DOMAIN reviews : reviews[i].similarity > CallThreshold
           /\ Len(reviews) <= CallLimit
           /\ Len(reviews) = Min(CallLimit, Cardinality(Qualifying))
           /\ Ids(reviews) \subseteq { r.id : r \in Qualifying }
           /\ \A r \in Qualifying : r.id \notin Ids(reviews) =>
                 \A i \in DOMAIN reviews :
                     reviews[i].similarity >= Similarity(r, call.q)
           /\ ( /\ store = ScenarioAStore
                /\ call.options.similarityThreshold = Some(30)
                /\ call.options.limit = Some(3)
                /\ call.options.appId = None
                /\ call.options.platform = None )
              => Similarities(reviews) = <<92, 81, 55>>

\* Scenario A was run: threshold 0.3, limit 3, five candidates
C8_Witness ==
    /\ SearchReturned
    /\ store = ScenarioAStore
    /\ call.options.similarityThreshold = Some(30)
    /\ call.options.limit = Some(3)
    /\ call.options.appId = None
    /\ call.options.platform = None
    /\ Len(result.value.reviews) = 3
    /\ Cardinality(Qualifying) = 4

\* C9: every returned similarity lies in [0,1] and the returned list is
\* non-increasing in similarity, for every threshold and every table.
C9_SimilarityInUnitInterval ==
    SearchReturned =>
        LET reviews == result.value.reviews
        IN /\ \A i \in DOMAIN reviews :
                 reviews[i].similarity >= 0 /\ reviews[i].similarity <= Scale
           /\ \A i, j \in DOMAIN reviews :
                 i < j => reviews[i].similarity >= reviews[j].similarity

\* C10: every returned candidate matches every filter the caller supplied.
C10_FiltersMatch ==
    SearchReturned =>
        \A i \in DOMAIN result.value.reviews :
            LET r == result.value.reviews[i]
            IN /\ (call.options.appId # None => r.appId = Get(call.options.appId))
               /\ (call.options.platform # None =>
                      r.platform = Get(call.options.platform))

PipelineReturned == call.op = "executeRAGPipeline" /\ result.status = "ok"

\* C11: the avgSimilarity of a retrieval context is the arithmetic mean of the
\* similarities of the accepted candidates (the context's reviews, each of
\* them a qualifying row of the table), and it is 0 when none was accepted.
C11_AvgSimilarityIsMeanOfAccepted ==
    PipelineReturned =>
        LET context == result.value.context
            avg == context.avgSimilarity
        IN /\ avg.den > 0
           /\ context.reviewCount = Len(context.reviews)
           /\ Ids(context.reviews) \subseteq { r.id : r \in Qualifying }
           /\ Len(context.reviews) = 0 => avg.num = 0
           /\ Len(context.reviews) > 0 =>
                 avg.num * Len(context.reviews)
                     = avg.den * SumSeq(Similarities(context.reviews))

\* two candidates of different similarity were accepted and a third
\* qualifying one was left out
C11_Witness ==
    /\ PipelineReturned
    /\ Len(result.value.context.reviews) = 2
    /\ Cardinality(Qualifying) = 3
    /\ result.value.context.reviews[1].similarity
           # result.value.context.reviews[2].similarity
    /\ result.value.context.avgSimilarity = [num |-> 40, den |-> 2]

SimpleChatReturned == call.op = "generateSimpleChat" /\ result.status = "ok"

\* the override a caller gave: present and not the empty string
OverrideGiven == call.model # None /\ Get(call.model) # ""

\* C13: model resolution takes the caller's override when one is given and
\* the configured preferred model otherwise; an identifier starting with
\* "gemini" resolves to the Google family with that identifier, one starting
\* with "gpt" to the OpenAI family with that identifier, and any other to the
\* Google family's "gemini-1.5-pro".
C13_ModelResolution ==
    SimpleChatReturned =>
        LET id == IF OverrideGiven THEN Get(call.model)
                  ELSE call.config.preferred_model
            letters == Spelling[id]
            resolved == result.value.model
        IN IF Len(letters) >= 6 /\ SubSeq(letters, 1, 6) = <<"g", "e", "m", "i", "n", "i">>
           THEN resolved = [family |-> "google", model |-> id]
           ELSE IF Len(letters) >= 3 /\ SubSeq(letters, 1, 3) = <<"g", "p", "t">>
           THEN resolved = [family |-> "openai", model |-> id]
           ELSE resolved = [family |-> "google", model |-> "gemini-1.5-pro"]

\* the caller's override names no known family while the configuration
\* prefers an OpenAI model: the fixed default is what is resolved
C13_Witness ==
    /\ SimpleChatReturned
    /\ call.model = Some("claude-3")
    /\ call.config.preferred_model = "gpt-4o"
    /\ result.value.model = [family |-> "google", model |-> "gemini-1.5-pro"]

\* the sum of the counts of a histogram object
RECURSIVE SumCounts(_)
SumCounts(histogram) ==
    IF DOMAIN histogram = {} THEN 0
    ELSE LET k == CHOOSE x \in DOMAIN histogram : TRUE
         IN histogram[k] + SumCounts([x \in DOMAIN histogram \ {k} |-> histogram[x]])

\* C14: for every candidate list the sentiment counts add up to the themes'
\* totalReviews and to the number of candidates, the counts of the rating
\* histogram add up to it too, and for the empty list every count and
\* percentage is zero.
C14_SentimentAndThemesAgree ==
    PipelineReturned =>
        LET reviews == result.value.context.reviews
            sentiment == result.value.metadata.sentiment
            themes == result.value.metadata.themes
        IN /\ sentiment.positive + sentiment.neutral + sentiment.negative
                 = Len(reviews)
           /\ themes.totalReviews = Len(reviews)
           /\ SumCounts(themes.ratingDistribution) = Len(reviews)
           /\ Len(reviews) = 0 =>
                 /\ sentiment.positive = 0
                 /\ sentiment.neutral = 0
                 /\ sentiment.negative = 0
                 /\ sentiment.positivePercentage.num = 0
                 /\ sentiment.negativePercentage.num = 0
                 /\ themes.avgRating.num = 0
                 /\ themes.topVersions = <<>>
                 /\ DOMAIN themes.ratingDistribution = {}
                 /\ DOMAIN themes.platforms = {}

\* candidates of every sentiment class were accepted: ratings 1 to 5
C14_Witness ==
    /\ PipelineReturned
    /\ Len(result.value.context.reviews) = 5
    /\ result.value.metadata.sentiment.positive = 2
    /\ result.value.metadata.sentiment.neutral = 1
    /\ result.value.metadata.sentiment.negative = 2
    /\ DOMAIN result.value.metadata.themes.ratingDistribution = 1..5

\* no candidate was accepted from a table that holds reviews
C14_WitnessEmpty ==
    /\ PipelineReturned
    /\ store # <<>>
    /\ Len(result.value.context.reviews) = 0

\* C26: the top versions of the themes are at most 3 versions of the accepted
\* candidates, ranked by descending frequency, equally frequent versions in
\* the order in which the candidate list first shows them.
C26_TopVersionsTiesFirstSeen ==
    PipelineReturned =>
        LET reviews == result.value.context.reviews
            top == result.value.metadata.themes.topVersions
            carried == { v \in Versions : VersionCount(reviews, v) > 0 }
            Before(a, b) ==
                \/ VersionCount(reviews, a) > VersionCount(reviews, b)
                \/ /\ VersionCount(reviews, a) = VersionCount(reviews, b)
                   /\ FirstSeen(reviews, a) < FirstSeen(reviews, b)
        IN /\ Len(top) = Min(TopVersionsCount, Cardinality(carried))
           /\ \A k \in DOMAIN top :
                /\ top[k] \in carried
                /\ Cardinality({ w \in carried : Before(w, top[k]) }) = k - 1

FindSimilarCalled == call.op = "findSimilarToReview"

\* the rows of the table that have the id the call named
Named == { r \in Table(store) : r.id = call.reviewId }

\* C17: findSimilarToReview searches with the stored embedding of the review
\* it was given, and its result never holds that review, whatever the
\* threshold and the limit.
C17_SimilarExcludesSelf ==
    (FindSimilarCalled /\ result.status = "ok") =>
        /\ \E r \in Named : call.q = r.row.embedding /\ call.q # None
        /\ call.reviewId \notin Ids(result.value.reviews)
        /\ \A i \in DOMAIN result.value.reviews :
              \E r \in Table(store) :
                 /\ r.id = result.value.reviews[i].id
                 /\ r.id # call.reviewId
                 /\ \A own \in Named :
                       result.value.reviews[i].similarity
                          = Scale - CosineDistance(Get(own.row.embedding),
                                                   Get(r.row.embedding))

\* a review with the very same embedding was returned, the review itself
\* (similarity 1, above any threshold) was not, and the limit had room for it
C17_Witness ==
    /\ FindSimilarCalled
    /\ result.status = "ok"
    /\ Len(result.value.reviews) = 1
    /\ result.value.reviews[1].similarity = Scale
    /\ Default(call.options.limit, DefaultSimilarToLimit) > 1
    /\ call.options.similarityThreshold = Some(0 - 50)

\* C18: findSimilarToReview throws "not found" when no review has the id and
\* "does not have an embedding" when the review has none; in both cases only
\* the lookup was sent to the store, and nothing is returned.
C18_NotFoundAndMissingEmbedding ==
    FindSimilarCalled =>
        /\ Named = {} =>
              /\ result = [status |-> "error", error |-> "not found"]
              /\ call.queries = <<"review">>
        /\ (\E r \in Named : r.row.embedding = None) =>
              /\ result = [status |-> "error",
                           error |-> "does not have an embedding"]
              /\ call.queries = <<"review">>
        /\ result.status = "error" =>
              (Named = {} \/ \E r \in Named : r.row.embedding = None)

\* a review without an embedding was named while another review of the table
\* has one
C18_Witness ==
    /\ FindSimilarCalled
    /\ result = [status |-> "error", error |-> "does not have an embedding"]
    /\ \E r \in Table(store) : r.row.embedding # None

\* an id beyond the table was named
C18_WitnessNotFound ==
    /\ FindSimilarCalled
    /\ store # <<>>
    /\ result = [status |-> "error", error |-> "not found"]

-----------------------------------------------------------------------------
(* Claims about the configuration module, checked under SpecConfig *)

ConfigRead == call.op \in {"getRemoteConfig", "refreshConfig"}

\* the hard-coded defaults, tunable by tunable
HardCodedDefaults ==
    [agent_system_instructions |-> DefaultInstructions,
     preferred_model |-> "gemini-1.5-pro",
     embedding_provider |-> "google",
     max_context_reviews |-> 10,
     sync_interval_hours |-> 24,
     max_reviews_per_sync |-> 100]

\* C19: reading the configuration never fails the caller; when the service is
\* not initialised or the fetch fails, getRemoteConfig returns the hard-coded
\* default of every tunable.
C19_ConfigReadNeverFails ==
    ConfigRead =>
        /\ result.status = "ok"
        /\ (~call.cacheValid /\ (~world.firebase \/ ~call.fetchSucceeds))
              => result.value = HardCodedDefaults

\* the fetch failed while the module still held an expired cache of other
\* values: the defaults were returned
C19_Witness ==
    /\ call.op = "getRemoteConfig"
    /\ world.firebase
    /\ call.fetched
    /\ ~call.fetchSucceeds
    /\ call.before.configCache # None
    /\ Get(call.before.configCache) # HardCodedDefaults
    /\ result.status = "ok"
    /\ result.value = HardCodedDefaults

GetRemoteConfigCalled == call # NoCall /\ call.op = "getRemoteConfig"

\* the call answered with the values the cache held, without a request
ServedFromCache ==
    /\ GetRemoteConfigCalled
    /\ ~call.fetched
    /\ call.before.configCache # None
    /\ result.value = Get(call.before.configCache)

\* minutes between the fetch that filled the cache the call found and the call
CacheAge == call.now - call.before.cacheTimestamp

\* C24: getRemoteConfig answers from the cache, without contacting the
\* service, only while less than 10 minutes have passed since the fetch that
\* filled the cache; a call that finds a cache of 10 minutes or more contacts
\* the service, and the time kept with a cache is the time of a fetch.
C24_CacheNeverStalerThanTTL ==
    /\ ServedFromCache => CacheAge < CACHE_TTL_MS
    /\ (GetRemoteConfigCalled /\ call.before.configCache # None
            /\ CacheAge < CACHE_TTL_MS) => ServedFromCache
    /\ (GetRemoteConfigCalled /\ call.before.configCache # None
            /\ CacheAge >= CACHE_TTL_MS) => call.fetched
    /\ remoteConfig.configCache # None =>
            /\ remoteConfig.cacheTimestamp <= world.now
            /\ Get(remoteConfig.configCache) \in
                  { ParseConfigValues(Merged(t)) : t \in Templates }

\* a call exactly 10 minutes after the fetch that filled the cache contacted
\* the service, and got other values than the cache held
C24_Witness ==
    /\ GetRemoteConfigCalled
    /\ call.before.configCache # None
    /\ CacheAge = CACHE_TTL_MS
    /\ call.fetched
    /\ call.fetchSucceeds
    /\ result.value # Get(call.before.configCache)

\* the call sent the getTemplate request and got the template
FetchSucceeded == call.fetched /\ call.fetchSucceeds

\* C29: a getRemoteConfig call that completes no successful fetch leaves
\* configCache and cacheTimestamp as it found them; a successful fetch writes
\* the fetched values and the time of the call; after a failed fetch the
\* cache is still invalid, so that the next call fetches again.
C29_OnlySuccessfulFetchWritesCache ==
    GetRemoteConfigCalled =>
        /\ ~FetchSucceeded => remoteConfig = call.before
        /\ FetchSucceeded =>
              remoteConfig = [configCache |-> Some(result.value),
                              cacheTimestamp |-> call.now]
        /\ (call.fetched /\ ~call.fetchSucceeds) =>
              /\ result.value = HardCodedDefaults
              /\ ~CacheValid(remoteConfig, world.now)
              /\ GetRemoteConfig(remoteConfig, world, TRUE).fetched

\* a fetch failed while the module held an expired cache of other values
\* than the defaults: the expired cache is still there
C29_Witness ==
    /\ GetRemoteConfigCalled
    /\ call.fetched
    /\ ~call.fetchSucceeds
    /\ call.before.configCache # None
    /\ Get(call.before.configCache) # HardCodedDefaults
    /\ remoteConfig = call.before
    /\ world.now > call.now

-----------------------------------------------------------------------------
(* Claims about the embedding service, checked under SpecEmbed *)

EmbeddingCall == call # NoCall /\ call.op \in {"generateEmbedding", "generateEmbeddingsBatch"}
BatchReturned == call # NoCall /\ call.op = "generateEmbeddingsBatch" /\ result.status = "ok"

\* C15: generateEmbeddingsBatch returns one vector per text, the i-th being
\* the embedding of the i-th text, each of the length the selected
\* provider's getDimensions() reports: 768 for google, 1536 for openai.
C15_BatchPreservesOrder ==
    BatchReturned =>
        /\ Len(result.value) = Len(call.texts)
        /\ \A i \in DOMAIN call.texts :
              /\ result.value[i].embedding = Embed(call.texts[i], call.selected)
              /\ result.value[i].embedding.dim = result.value[i].dimensions
              /\ result.value[i].dimensions
                    = (IF call.selected = "google" THEN 768 ELSE 1536)

\* Scenario D: the batch "a", "b", "c" came back as three different vectors
C15_Witness ==
    /\ BatchReturned
    /\ call.texts = <<"a", "b", "c">>
    /\ Len(result.value) = 3
    /\ result.value[1].embedding # result.value[2].embedding
    /\ result.value[2].embedding # result.value[3].embedding

KeyOf(provider) ==
    IF provider = "google" THEN world.GOOGLE_AI_API_KEY ELSE world.OPENAI_API_KEY

ClientOf(provider) ==
    IF provider = "google" THEN embeddingService.googleClient
    ELSE embeddingService.openaiClient

CredentialError ==
    /\ EmbeddingCall
    /\ result.status = "error"
    /\ result.error \in {MissingKey("google"), MissingKey("openai")}

\* C16 as stated: without an API key for the selected provider,
\* generateEmbedding and generateEmbeddingsBatch fail with a credential
\* error, having made no network call of any kind and constructed no client;
\* and a call that failed sent each of its requests at most once.
C16_NoNetworkCallAtAll ==
    /\ (EmbeddingCall /\ call.selected \in Providers /\ ~KeyOf(call.selected))
          => CredentialError
    /\ CredentialError =>
          /\ call.requests = <<>>
          /\ ~call.fetched
          /\ ~call.constructed
          /\ ClientOf(call.selected) = None
    /\ (EmbeddingCall /\ result.status = "error") =>
          Len(call.requests)
              <= (IF call.op = "generateEmbeddingsBatch" /\ call.selected = "google"
                  THEN Len(call.texts) ELSE 1)

\* C16 amended: without an API key for the selected provider, both fail with
\* a credential error, having sent no request to a provider's API and
\* constructed no client; no network call of any kind was made when the
\* caller named the provider, while the selection of the provider from the
\* configuration may have fetched the Remote Config template.  A call that
\* failed, for whatever reason, sent each of its requests at most once.
C16_CredentialErrorWithoutCall ==
    /\ (EmbeddingCall /\ call.selected \in Providers /\ ~KeyOf(call.selected))
          => CredentialError
    /\ CredentialError =>
          /\ ~KeyOf(call.selected)
          /\ call.requests = <<>>
          /\ ~call.constructed
          /\ ClientOf(call.selected) = None
          /\ call.provider # None => ~call.fetched
          /\ call.fetched =>
                (world.firebase /\ ~CacheValid(call.before, world.now))
    /\ (EmbeddingCall /\ result.status = "error") =>
          Len(call.requests)
              <= (IF call.op = "generateEmbeddingsBatch" /\ call.selected = "google"
                  THEN Len(call.texts) ELSE 1)

\* the second call of the process, a batch for the provider whose key is
\* missing, failed while the other provider's client exists
C16_Witness ==
    /\ CredentialError
    /\ ~call.fetched
    /\ call.serial = 2
    /\ call.op = "generateEmbeddingsBatch"
    /\ Len(call.texts) = 2
    /\ call.selected = "openai"
    /\ embeddingService.googleClient # None


\* C25: a provider's client is constructed at most once in a process: the
\* service holds a client only for a provider whose API key is set, it is the
\* first client constructed for that provider, a call constructs one only if
\* the service held none, and every call that reached the provider's API
\* went through the one client the service holds.
C25_ClientConstructedOnce ==
    /\ \A provider \in Providers :
          ClientOf(provider) # None =>
              /\ KeyOf(provider)
              /\ Get(ClientOf(provider)) = [provider |-> provider, instance |-> 1]
    /\ (EmbeddingCall /\ call.requests # <<>>) =>
          /\ call.client # None
          /\ call.client = ClientOf(call.selected)
    /\ (EmbeddingCall /\ call.constructed) => call.client # None

\* the second call of the process went to the provider of the first, found
\* its client and returned through it
C25_Witness ==
    /\ EmbeddingCall
    /\ call.serial = 2
    /\ ~call.constructed
    /\ result.status = "ok"
    /\ call.client = Some([provider |-> call.selected, instance |-> 1])


-----------------------------------------------------------------------------
(* Claims about the chat page, checked under SpecClient *)

\* handleSubmit has returned
SubmitEnded == chatInterface.phase = "done"

\* the page read the line of an error envelope in one piece
ErrorEnvelopeReceived ==
    \E i \in DOMAIN chatInterface.parsed : chatInterface.parsed[i] = "error"

\* the placeholder assistant message of the turn is gone: the user's message
\* is the last one
PlaceholderRemoved ==
    /\ Len(chatInterface.messages) = chatInterface.assistantMessageIndex
    /\ chatInterface.messages[Len(chatInterface.messages)].role = "user"

\* C30: when the page receives an error envelope the turn ends in the error
\* state: the error is shown to the user and the placeholder assistant
\* message of the turn is removed, as for a failed request.
C30_ErrorEnvelopeEndsInErrorState ==
    (SubmitEnded /\ ErrorEnvelopeReceived) =>
        /\ chatInterface.toasts # <<>>
        /\ PlaceholderRemoved


-----------------------------------------------------------------------------
(* Claims about concurrently active turns, checked under SpecTurns *)

TurnActive(t) == turns[t].pc \notin {"idle", "finished"}

\* what getRemoteConfig returns in a process in which no turn has filled the
\* cache: the values of the template the service holds
ReadAlone == GetRemoteConfig(NoConfigCache, world, TRUE).value

\* the envelope ordering contract on one turn's stream
EnvelopesOrdered(es) ==
    es # <<>> =>
        /\ es[1].type = "metadata"
        /\ \A i \in 2..Len(es) : es[i].type # "metadata"
        /\ \A i \in 1..(Len(es) - 1) : es[i].type \in {"metadata", "text"}

PublishedConfigs == { ParseConfigValues(Merged(template)) : template \in Templates }

====
